---- MODULE Spec2Model ----
(***************************************************************************)
(* Model of the content-chunking and idempotent-storage pipeline           *)
(* (backend/utils/chunker.py, backend/utils/storage.py).                   *)
(*                                                                         *)
(* Python strings are TLA+ strings; a Python index i (0-based) is the      *)
(* TLA+ position i + 1, and the slice s[a:b] is SubSeq(s, a + 1, b).       *)
(***************************************************************************)
EXTENDS Integers, Sequences, FiniteSets, TLC

VARIABLES
    chunk_size,      \* Chunker.chunk_size
    overlap_size,    \* Chunker.overlap_size
    content_data,    \* the argument of the running chunk_content call
    content,         \* local 'content' of chunk_content (after truncation)
    start_idx,       \* local 'start_idx' of chunk_content
    end_idx,         \* local 'end_idx' of chunk_content
    chunks,          \* local 'chunks' of chunk_content, the list it returns
    windows,         \* history: start, end and number of entries of each iteration
    pc,              \* position of the Chunker ("idle", "loop", "done") and of
                     \* the pipeline run after it ("stored", "failed")
    calls,           \* history: chunk_content calls made on the document
    previous_ids,    \* history: the chunk ids the call before this one made
    store,           \* the Qdrant collection: point id -> point
    chunk_embeddings,\* the argument of the latest idempotent_store_embeddings
    lookup_ok,       \* per candidate: did the scroll of check_duplicate succeed
    upsert_calls,    \* the point lists the latest call passed to client.upsert
    raised,          \* did the latest call raise
    store_before,    \* history: the collection when the latest call began
    store_after_first, \* history: the collection after the first of the
                     \* consecutive runs of the same batch
    runs,            \* history: consecutive completed runs of the same batch
                     \* (0, 1, or 2 for two and more)
    url,             \* argument 'url' of the latest check_content_change
    new_content_hash,\* argument 'new_content_hash' of that call
    scroll_ok,       \* did the scroll of that call succeed
    has_changed,     \* first component of what that call returned
    existing_hash,   \* second component of what that call returned
    store_checked,   \* history: the collection that call looked at
    checked,         \* history: has check_content_change been called
    harness,         \* the harness function running or run: "none",
                     \* "performance" or "consistency"
    harness_pc,      \* its position: "idle", "loop", "after_loop",
                     \* "returned" or "raised" (an exception left it)
    test_queries,    \* argument 'test_queries' of run_performance_tests
    num_runs,        \* argument 'num_runs' of
                     \* check_consistency_for_repeated_queries
    loop_i,          \* the loop variable 'i' of either function
    results_dict,    \* local dict 'results' of either function
    successful_times,\* local list 'successful_times' (performance)
    response_times,  \* local list 'response_times' (consistency)
    all_results,     \* local list 'all_results' (consistency)
    outcomes,        \* history: what each retrieve_func call did
    num_queries,     \* argument 'num_queries' of run_performance_test
    successful_queries, \* local 'successful_queries' of run_performance_test
    success_rate,    \* the success rate it returns, a quotient
    metrics,         \* the dict analyze_performance returns
    exit_code,       \* what performance_test.main returns (-1: not yet)
    validation_pc,   \* position of the validation functions: "idle",
                     \* "scored" (calculate_accuracy_score returned) or
                     \* "tested" (run_validation_test returned)
    retrieved,       \* what retrieve_func did in run_validation_test, or
                     \* argument 'retrieved_chunks' of calculate_accuracy_score
    expected,        \* argument 'expected' / 'expected_content'
    accuracy,        \* what calculate_accuracy_score returned, a quotient
    validation,      \* the dict run_validation_test returned
    retrieve_pc,     \* position of retrieve_content: "idle", "embedding",
                     \* "searching", "returned" or "raised"
    args_query,      \* argument 'query' of retrieve_content
    args_top_k,      \* argument 'top_k' of retrieve_content
    embed_calls,     \* history: the chunk_data dicts passed to
                     \* generate_embedding_for_chunk, in call order
    search_calls,    \* history: the (query_embedding, limit) pairs passed to
                     \* search_similar, in call order
    search_failed,   \* did client.search raise inside search_similar
    search_hits,     \* what the latest search_similar returned
    retrieve_result, \* what retrieve_content did: raised or returned
    main_pc,         \* position of retrieve.main: "idle", "retrieving",
                     \* "returned" or "exited" (SystemExit left it)
    exit_calls,      \* history: the statuses passed to sys.exit
    split_pc,        \* position of a direct _split_large_chunk call:
                     \* "idle" or "returned"
    split_text,      \* argument 'chunk_text' of that call
    split_max_size,  \* argument 'max_size' of that call
    split_result,    \* the list that call returned
    retry_pc,        \* position of retry_with_backoff: "idle", "calling"
                     \* (about to call func), "sleeping", "returned", "raised"
    max_retries,     \* argument 'max_retries'
    backoff_factor,  \* argument 'backoff_factor'
    attempt,         \* the loop variable 'attempt'
    func_outcomes,   \* history: what each call of func did
    delays,          \* history: the delays slept, in milliseconds
    retry_result,    \* what retry_with_backoff returned or raised
    crawl_pc,        \* position of crawl_website: "idle", "loop", "returned"
    start_url,       \* argument 'start_url'
    max_pages,       \* argument 'max_pages'
    visited_urls,    \* self.visited_urls
    to_visit,        \* local list 'to_visit'
    crawl_results,   \* local list 'results'
    http_gets,       \* history: the urls of the session.get calls, in order
    visits,          \* history: per loop iteration that visited a page, its
                     \* url, whether get_page_content returned content, and
                     \* the links find_links returned
    iterations       \* history: the iterations of the while loop

chunker_vars == <<chunk_size, overlap_size, content_data, content, start_idx,
                  end_idx, chunks, windows, pc, calls, previous_ids>>

storage_vars == <<store, chunk_embeddings, lookup_ok, upsert_calls, raised,
                  store_before, store_after_first, runs>>

change_vars == <<url, new_content_hash, scroll_ok, has_changed, existing_hash,
                 store_checked, checked>>

harness_vars == <<harness, harness_pc, test_queries, num_runs, loop_i,
                  results_dict,
                  successful_times, response_times, all_results, outcomes>>

test_vars == <<num_queries, successful_queries, success_rate, metrics,
               exit_code>>

validation_vars == <<validation_pc, retrieved, expected, accuracy, validation>>

\* the variables of the retrieval service and of its helpers
retrieve_vars == <<retrieve_pc, args_query, args_top_k, embed_calls,
                   search_calls, search_failed, search_hits, retrieve_result>>

main_vars == <<main_pc, exit_calls>>

\* the variables of the pipeline, of its harness and of its test program
pipeline_vars == <<chunker_vars, storage_vars, change_vars, harness_vars,
                   test_vars>>

split_vars == <<split_pc, split_text, split_max_size, split_result>>

retry_vars == <<retry_pc, max_retries, backoff_factor, attempt,
                func_outcomes, delays, retry_result>>

crawler_vars == <<crawl_pc, start_url, max_pages, visited_urls, to_visit,
                  crawl_results, http_gets, visits, iterations>>

service_vars == <<validation_vars, retrieve_vars, main_vars, split_vars,
                  retry_vars, crawler_vars>>

outside_validation == <<pipeline_vars, retrieve_vars, main_vars, split_vars,
                        retry_vars, crawler_vars>>

\* retrieve_content and main leave these alone
outside_retrieve == <<pipeline_vars, validation_vars, split_vars, retry_vars,
                      crawler_vars>>

outside_split == <<pipeline_vars, validation_vars, retrieve_vars, main_vars,
                   retry_vars, crawler_vars>>

outside_retry == <<pipeline_vars, validation_vars, retrieve_vars, main_vars,
                   split_vars, crawler_vars>>

outside_crawler == <<pipeline_vars, validation_vars, retrieve_vars, main_vars,
                     split_vars, retry_vars>>

vars == <<chunker_vars, storage_vars, change_vars, harness_vars, test_vars,
          service_vars>>

\* the variables a Chunker leaves alone, and those a store call does
outside_chunker == <<storage_vars, change_vars, harness_vars, test_vars,
                     service_vars>>

outside_store == <<chunker_vars, change_vars, harness_vars, test_vars,
                   service_vars>>

outside_harness == <<chunker_vars, storage_vars, change_vars, test_vars,
                     service_vars>>

outside_harness_and_test == <<chunker_vars, storage_vars, change_vars,
                              service_vars>>

-----------------------------------------------------------------------------
(* Bounds of the model.                                                    *)

MaxLen == 4          \* longest exhaustively enumerated document text
MaxChunkSize == 3    \* largest chunk_size paired with those texts
MaxOverlap == 2      \* largest overlap_size paired with those texts
MaxWindows == 5      \* loop iterations explored of one chunk_content call
MaxBatch == 2        \* longest batch handed to idempotent_store_embeddings

-----------------------------------------------------------------------------
(* Python string helpers.                                                  *)

Min2(a, b) == IF a <= b THEN a ELSE b

Max2(a, b) == IF a >= b THEN a ELSE b

\* s[a:b] for 0 <= a, 0 <= b (Python clamps b to len(s))
Slice(s, a, b) == SubSeq(s, a + 1, Min2(b, Len(s)))

\* s[i], as a one-character string
CharAt(s, i) == SubSeq(s, i + 1, i + 1)

\* str.isspace() of one character (the ASCII whitespace str.strip() removes)
IsSpace(c) == c \in {" ", "\n", "\t", "\r", "\f"}

\* does the string m occur in s at index i
OccursAt(s, m, i) == /\ i >= 0
                     /\ i + Len(m) <= Len(s)
                     /\ SubSeq(s, i + 1, i + Len(m)) = m

\* str.rfind(m): the highest index at which m occurs in s, or -1
RFind(s, m) ==
    LET last == Len(s) - Len(m)
    IN  IF \E i \in 0..last : OccursAt(s, m, i)
        THEN CHOOSE i \in 0..last :
                /\ OccursAt(s, m, i)
                /\ \A j \in (i + 1)..last : ~OccursAt(s, m, j)
        ELSE -1

\* str.strip()
Strip(s) ==
    LET n == Len(s)
    IN  IF \A i \in 1..n : IsSpace(SubSeq(s, i, i))
        THEN ""
        ELSE LET first == CHOOSE i \in 1..n :
                             /\ ~IsSpace(SubSeq(s, i, i))
                             /\ \A j \in 1..(i - 1) : IsSpace(SubSeq(s, j, j))
                 last == CHOOSE i \in 1..n :
                             /\ ~IsSpace(SubSeq(s, i, i))
                             /\ \A j \in (i + 1)..n : IsSpace(SubSeq(s, j, j))
             IN  SubSeq(s, first, last)

\* max(...) over the seven rfind calls of the boundary search
SentenceEnd(chunk) ==
    LET m1 == RFind(chunk, ". ")
        m2 == RFind(chunk, "! ")
        m3 == RFind(chunk, "? ")
        m4 == RFind(chunk, "\n")
        m5 == RFind(chunk, ".\n")
        m6 == RFind(chunk, "!")
        m7 == RFind(chunk, "?")
    IN  Max2(m1, Max2(m2, Max2(m3, Max2(m4, Max2(m5, Max2(m6, m7))))))

-----------------------------------------------------------------------------
(* Chunker                                                                 *)

max_content_size == 30000

max_chunk_size == 20000

\* Chunker._split_large_chunk, from the cursor 'start' on
RECURSIVE SplitFrom(_, _, _)
SplitFrom(chunk_text, max_size, start) ==
    IF ~(start < Len(chunk_text))
    THEN <<>>
    ELSE LET end == start + max_size
         IN  IF end >= Len(chunk_text)
             THEN <<Slice(chunk_text, start, Len(chunk_text))>>
             ELSE LET sub_chunk == Slice(chunk_text, start, end)
                      sentence_end == SentenceEnd(sub_chunk)
                  IN  IF sentence_end > Len(sub_chunk) \div 2
                      THEN LET actual_end == start + sentence_end + 1
                           IN  <<Slice(chunk_text, start, actual_end)>>
                               \o SplitFrom(chunk_text, max_size, actual_end)
                      ELSE <<Slice(chunk_text, start, end)>>
                           \o SplitFrom(chunk_text, max_size, end)

\* mutant: the oversized chunk is passed on whole
_split_large_chunk_whole(chunk_text, max_size) == <<chunk_text>>

_split_large_chunk(chunk_text, max_size) == SplitFrom(chunk_text, max_size, 0)

\* mutant: the identifier is built from the page url, not from the hash
HashPrefix_FromUrl(data) == Slice(data.url, 0, 16)

\* content_data.get('metadata', {}).get('content_hash', '')[:16]
HashPrefix(data) == Slice(data.metadata.content_hash, 0, 16)

\* mutant: a boundary at the midpoint itself already cuts (>= for >)
WindowEnd_AtMidpoint(text, start, size) ==
    LET content_length == Len(text)
        end == start + size
    IN  IF end >= content_length
        THEN content_length
        ELSE LET chunk == Slice(text, start, end)
                 sentence_end == SentenceEnd(chunk)
             IN  IF sentence_end >= Len(chunk) \div 2
                 THEN start + sentence_end + 1
                 ELSE Min2(start + size, content_length)

\* the end of the window that starts at 'start' (chunker.py lines 34-60)
WindowEnd(text, start, size) ==
    LET content_length == Len(text)
        end == start + size
    IN  IF end >= content_length
        THEN content_length
        ELSE LET chunk == Slice(text, start, end)
                 sentence_end == SentenceEnd(chunk)
             IN  IF sentence_end > Len(chunk) \div 2
                 THEN start + sentence_end + 1
                 ELSE Min2(start + size, content_length)

\* the entry appended for an ordinary chunk (chunker.py lines 92-111)
ChunkEntry(data, chunk_text, start, end, content_length) ==
    LET chunk_id == HashPrefix(data) \o "_" \o ToString(start)
                       \o "_" \o ToString(end)
    IN  [id |-> chunk_id,
         url |-> data.url,
         title |-> data.title,
         headings |-> data.headings,
         content |-> chunk_text,
         metadata |-> [content_hash |-> data.metadata.content_hash,
                       source_url |-> data.metadata.source_url,
                       chunk_id |-> chunk_id,
                       start_idx |-> start,
                       end_idx |-> end,
                       chunk_size |-> Len(chunk_text),
                       total_content_length |-> content_length]]

\* mutant: the identifier of a sub-chunk lacks its number
SubChunkEntry_NoIndex(data, sub_chunk, i, start, end, content_length) ==
    LET sub_chunk_id == HashPrefix(data) \o "_" \o ToString(start)
                           \o "_" \o ToString(end)
    IN  [id |-> sub_chunk_id,
         url |-> data.url,
         title |-> data.title,
         headings |-> data.headings,
         content |-> sub_chunk,
         metadata |-> [content_hash |-> data.metadata.content_hash,
                       source_url |-> data.metadata.source_url,
                       chunk_id |-> sub_chunk_id,
                       start_idx |-> start,
                       end_idx |-> end,
                       chunk_size |-> Len(sub_chunk),
                       total_content_length |-> content_length,
                       is_sub_chunk |-> TRUE]]

\* the entry appended for sub-chunk number i (chunker.py lines 71-89)
SubChunkEntry(data, sub_chunk, i, start, end, content_length) ==
    LET sub_chunk_id == HashPrefix(data) \o "_" \o ToString(start)
                           \o "_" \o ToString(end) \o "_" \o ToString(i)
    IN  [id |-> sub_chunk_id,
         url |-> data.url,
         title |-> data.title,
         headings |-> data.headings,
         content |-> sub_chunk,
         metadata |-> [content_hash |-> data.metadata.content_hash,
                       source_url |-> data.metadata.source_url,
                       chunk_id |-> sub_chunk_id,
                       start_idx |-> start,
                       end_idx |-> end,
                       chunk_size |-> Len(sub_chunk),
                       total_content_length |-> content_length,
                       is_sub_chunk |-> TRUE]]

\* mutant: the 'if chunk_text' test is missing
Emitted_KeepBlank(data, text, start, end) ==
    LET chunk_text == Strip(Slice(text, start, end))
    IN  IF Len(chunk_text) > max_chunk_size
        THEN LET sub_chunks == _split_large_chunk(chunk_text, max_chunk_size)
             IN  [i \in 1..Len(sub_chunks) |->
                     SubChunkEntry(data, sub_chunks[i], i - 1, start, end,
                                   Len(text))]
        ELSE <<ChunkEntry(data, chunk_text, start, end, Len(text))>>

\* what one loop iteration appends to 'chunks' (chunker.py lines 62-113)
Emitted(data, text, start, end) ==
    LET chunk_text == Strip(Slice(text, start, end))
    IN  IF chunk_text = ""
        THEN <<>>
        ELSE IF Len(chunk_text) > max_chunk_size
             THEN LET sub_chunks == _split_large_chunk(chunk_text, max_chunk_size)
                  IN  [i \in 1..Len(sub_chunks) |->
                          SubChunkEntry(data, sub_chunks[i], i - 1, start, end,
                                        Len(text))]
             ELSE <<ChunkEntry(data, chunk_text, start, end, Len(text))>>

\* mutant: the next window starts one character too late
NextStart_AfterEnd(end, overlap, content_length) ==
    LET s1 == end + 1 - overlap
        s2 == IF s1 >= content_length \/ overlap <= 0 THEN end + 1 ELSE s1
    IN  IF s2 <= 0 THEN end + 1 ELSE s2

\* mutant: the 'start_idx <= 0' guard is missing
NextStart_NoGuard(end, overlap, content_length) ==
    LET s1 == end - overlap
    IN  IF s1 >= content_length \/ overlap <= 0 THEN end ELSE s1

\* the cursor after a window ending at 'end' (chunker.py lines 115-122)
NextStart(end, overlap, content_length) ==
    LET s1 == end - overlap
        s2 == IF s1 >= content_length \/ overlap <= 0 THEN end ELSE s1
    IN  IF s2 <= 0 THEN end ELSE s2

-----------------------------------------------------------------------------
(* Inputs: the documents handed to chunk_content.                          *)

Alphabet == {"a", ".", "!", " ", "\n"}

RECURSIVE TextsOfLen(_)
TextsOfLen(n) ==
    IF n = 0 THEN {""}
    ELSE {t \o c : t \in TextsOfLen(n - 1), c \in Alphabet}

\* every text of at most MaxLen characters over Alphabet
SmallTexts == UNION {TextsOfLen(n) : n \in 0..MaxLen}

\* the string s repeated n times
RECURSIVE Rep(_, _)
Rep(s, n) ==
    IF n = 0 THEN ""
    ELSE LET h == Rep(s, n \div 2)
         IN  IF n % 2 = 0 THEN h \o h ELSE h \o h \o s

\* n characters, all "a" but for the string m placed at index i
Marked(n, i, m) == Rep("a", i) \o m \o Rep("a", n - i - Len(m))

Markers == {". ", "! ", "? ", "\n", ".\n", "!", "?"}

\* the default configuration (config.py lines 23-24) and its documents: 2500
\* characters with at most one sentence-terminal marker, before, at and
\* after the midpoint of the first window and at its last two characters
ReferenceConfigs == {<<1000, 100>>, <<1000, 0>>}

ReferenceTexts ==
    {Rep("a", 2500)} \cup
    {Marked(2500, i, m) : i \in {499, 500, 501, 998, 999}, m \in Markers}

\* configurations around the per-chunk maximum and the truncation ceiling,
\* and their documents
LargeConfigs == {<<20001, 0>>, <<25000, 0>>, <<25000, 100>>, <<30000, 0>>}

LargeTexts ==
    {Rep("a", 20001), Rep("a", 30000), Rep("a", 30001),
     Marked(30000, 15000, "! "), Marked(30000, 9000, ". "),
     Marked(30000, 24000, "?"), Marked(30001, 12000, Rep(" ", 9000)),
     "a" \o Rep(" ", 24000) \o Rep("a", 999) \o Rep(" ", 5000),
     Rep(" ", 25000) \o Rep("a", 5001), Rep("\n", 300) \o Rep("a", 24800)}

SmallConfigs == (1..MaxChunkSize) \X (0..MaxOverlap)

Configs == SmallConfigs \cup ReferenceConfigs \cup LargeConfigs

TextsFor(cfg) ==
    IF cfg \in ReferenceConfigs THEN ReferenceTexts
    ELSE IF cfg \in LargeConfigs THEN LargeTexts
    ELSE SmallTexts

content_hash_1 ==
    "9f86d081884c7d659a2feaa0c55ad015a3bf4f1b2b0b822cd15d6c15b0f00a08"

\* the page record Crawler.get_page_content builds (crawler.py lines 62-71)
Document(text) ==
    [url |-> "https://book/p1",
     title |-> "t",
     headings |-> <<"h">>,
     content |-> text,
     metadata |-> [content_hash |-> content_hash_1,
                   source_url |-> "https://book/p1"]]

NoDocument == [content |-> ""]

-----------------------------------------------------------------------------
(* Chunker.chunk_content as a state machine.                               *)

ChunkerInit ==
    /\ \E cfg \in Configs : chunk_size = cfg[1] /\ overlap_size = cfg[2]
    /\ content_data = NoDocument
    /\ content = ""
    /\ start_idx = 0
    /\ end_idx = 0
    /\ chunks = <<>>
    /\ windows = <<>>
    /\ pc = "idle"
    /\ calls = 0
    /\ previous_ids = <<>>

\* chunk_content is called: lines 14-32, up to the loop head
ChunkCall ==
    /\ pc = "idle"
    /\ \E text \in TextsFor(<<chunk_size, overlap_size>>) :
          /\ content_data' = Document(text)
          /\ content' = IF Len(text) > max_content_size
                        THEN Slice(text, 0, max_content_size)
                        ELSE text
          /\ pc' = IF text = "" THEN "done" ELSE "loop"
    /\ start_idx' = 0
    /\ end_idx' = 0
    /\ chunks' = <<>>
    /\ windows' = <<>>
    /\ calls' = 1
    /\ previous_ids' = <<>>
    /\ UNCHANGED <<chunk_size, overlap_size>>
    /\ UNCHANGED outside_chunker

\* the same page crawled again: the text and its content hash are those of
\* 'data', the url, the title and the headings are not
Recrawled(data) ==
    [data EXCEPT !.url = "https://mirror/p1",
                 !.title = "t (2)",
                 !.headings = <<"h", "h2">>,
                 !.metadata.source_url = "https://mirror/p1"]

\* chunk_content is called a second time, by a Chunker of the same
\* chunk_size and overlap_size, on the recrawled page; the first call has
\* returned, or has been followed for MaxWindows iterations
ChunkAgain ==
    /\ calls = 1
    /\ \/ pc = "done"
       \/ pc = "loop" /\ Len(windows) = MaxWindows
    /\ content_data' = Recrawled(content_data)
    /\ pc' = IF content_data.content = "" THEN "done" ELSE "loop"
    /\ start_idx' = 0
    /\ end_idx' = 0
    /\ chunks' = <<>>
    /\ windows' = <<>>
    /\ calls' = 2
    /\ previous_ids' = [n \in 1..Len(chunks) |-> chunks[n].id]
    /\ UNCHANGED <<chunk_size, overlap_size, content>>
    /\ UNCHANGED outside_chunker

\* one iteration of the while loop: lines 33-122
ChunkLoop ==
    /\ pc = "loop"
    /\ start_idx < Len(content)
    /\ Len(windows) < MaxWindows
    /\ LET end == WindowEnd(content, start_idx, chunk_size)
           new == Emitted(content_data, content, start_idx, end)
       IN  /\ end_idx' = end
           /\ chunks' = chunks \o new
           /\ windows' = Append(windows, [start |-> start_idx, end |-> end,
                                          emitted |-> Len(new)])
           /\ start_idx' = NextStart(end, overlap_size, Len(content))
    /\ UNCHANGED <<chunk_size, overlap_size, content_data, content, pc, calls,
                   previous_ids>>
    /\ UNCHANGED outside_chunker

\* the loop condition fails and chunk_content returns 'chunks': lines 124-125
ChunkReturn ==
    /\ pc = "loop"
    /\ ~(start_idx < Len(content))
    /\ pc' = "done"
    /\ UNCHANGED <<chunk_size, overlap_size, content_data, content, start_idx,
                   end_idx, chunks, windows, calls, previous_ids>>
    /\ UNCHANGED outside_chunker

-----------------------------------------------------------------------------
(* StorageManager                                                          *)

\* dict.get(key, default) on a record
Get(d, key, default) == IF key \in DOMAIN d THEN d[key] ELSE default

\* chunk_data.get('metadata', {}).get('content_hash', '')
ContentHashOf(chunk_data) ==
    Get(Get(chunk_data, "metadata", <<>>), "content_hash", "")

\* hashlib.sha256(f"{content_hash}_{chunk_id}".encode()).hexdigest()[:16]:
\* the digest is taken as collision-free, so the 16 hex characters are
\* identified with the string they digest (storage.py lines 159-161)
PointId(chunk_data) ==
    ContentHashOf(chunk_data) \o "_" \o Get(chunk_data, "id", "")

\* the PointStruct store_embeddings builds (storage.py lines 163-180)
PointStruct(chunk_data) ==
    [id |-> PointId(chunk_data),
     vector |-> Get(chunk_data, "embedding", <<>>),
     payload |-> [url |-> Get(chunk_data, "url", ""),
                  title |-> Get(chunk_data, "title", ""),
                  headings |-> Get(chunk_data, "headings", <<>>),
                  content |-> Get(chunk_data, "content", ""),
                  metadata |-> Get(chunk_data, "metadata", <<>>)]]

\* the scroll of check_duplicate: does a point carry the payload field
\* metadata.content_hash with this value (storage.py lines 83-95)
HashStored(st, content_hash) ==
    \E id \in DOMAIN st :
        /\ "content_hash" \in DOMAIN st[id].payload.metadata
        /\ st[id].payload.metadata.content_hash = content_hash

\* mutant: the scroll filters on the top-level payload key 'content_hash'
check_duplicate_TopLevelKey(st, content_hash, ok) ==
    IF ok
    THEN \E id \in DOMAIN st :
            /\ "content_hash" \in DOMAIN st[id].payload
            /\ st[id].payload.content_hash = content_hash
    ELSE FALSE

\* mutant: a failed scroll reports 'duplicate' (fails closed)
check_duplicate_FailClosed(st, content_hash, ok) ==
    IF ok THEN HashStored(st, content_hash) ELSE TRUE

\* StorageManager.check_duplicate; ok = the scroll did not raise
check_duplicate(st, content_hash, ok) ==
    IF ok THEN HashStored(st, content_hash) ELSE FALSE

\* the loop of idempotent_store_embeddings from candidate i on: the
\* candidates check_duplicate does not report (storage.py lines 208-217)
RECURSIVE FilteredFrom(_, _, _, _)
FilteredFrom(st, batch, ok, i) ==
    IF i > Len(batch) THEN <<>>
    ELSE IF ~check_duplicate(st, ContentHashOf(batch[i]), ok[i])
         THEN <<batch[i]>> \o FilteredFrom(st, batch, ok, i + 1)
         ELSE FilteredFrom(st, batch, ok, i + 1)

\* client.upsert(points): a point replaces the stored point of its id, and
\* of two points of one call with the same id the later one stays
RECURSIVE Upsert(_, _)
Upsert(st, points) ==
    IF points = <<>> THEN st
    ELSE LET p == Head(points)
             st1 == [id \in DOMAIN st \cup {p.id} |->
                        IF id = p.id THEN p ELSE st[id]]
         IN  Upsert(st1, Tail(points))

\* the points store_embeddings passes to client.upsert (lines 156-182)
PointsOf(batch) == [i \in 1..Len(batch) |-> PointStruct(batch[i])]

-----------------------------------------------------------------------------
(* Inputs: the batches handed to idempotent_store_embeddings.              *)

content_hash_2 ==
    "60303ae22b998861bce3b28f33eec1be758a213c86c93c076dbe9f558c11c752"

\* an embedded chunk as generate_embeddings_for_chunks returns it
EmbeddedChunk(content_hash, id) ==
    [id |-> id,
     url |-> "https://book/p1",
     title |-> "t",
     headings |-> <<"h">>,
     content |-> "text of " \o id,
     metadata |-> [content_hash |-> content_hash, chunk_id |-> id],
     embedding |-> <<1, 0>>]

\* chunks of two documents: two chunks of the first, one of the second
Candidates ==
    {EmbeddedChunk(content_hash_1, "9f86d081884c7d65_0_1000"),
     EmbeddedChunk(content_hash_1, "9f86d081884c7d65_900_1900"),
     EmbeddedChunk(content_hash_2, "60303ae22b998861_0_1000")}

Batches == UNION {[1..n -> Candidates] : n \in 0..MaxBatch}

EmptyStore == [id \in {} |-> id]

-----------------------------------------------------------------------------
(* StorageManager.idempotent_store_embeddings as a state machine.          *)

StorageInit ==
    /\ store = EmptyStore
    /\ chunk_embeddings = <<>>
    /\ lookup_ok = <<>>
    /\ upsert_calls = <<>>
    /\ raised = FALSE
    /\ store_before = EmptyStore
    /\ store_after_first = EmptyStore
    /\ runs = 0

\* one call of idempotent_store_embeddings(batch): lines 200-227, with
\* store_embeddings (lines 149-198) for the candidates that pass the filter;
\* ok[i] tells whether the duplicate lookup of candidate i succeeds, and
\* upsert_ok whether client.upsert does
idempotent_store_embeddings(batch) ==
    \E ok \in [1..Len(batch) -> BOOLEAN] :
        LET filtered_chunks == FilteredFrom(store, batch, ok, 1)
            upserts == filtered_chunks # <<>>
            repeat == runs > 0 /\ batch = chunk_embeddings
        IN  \E upsert_ok \in (IF upserts THEN BOOLEAN ELSE {TRUE}) :
                LET fails == upserts /\ ~upsert_ok
                    after == IF upserts /\ upsert_ok
                             THEN Upsert(store, PointsOf(filtered_chunks))
                             ELSE store
                IN  /\ chunk_embeddings' = batch
                    /\ lookup_ok' = ok
                    /\ upsert_calls' = IF upserts
                                       THEN <<PointsOf(filtered_chunks)>>
                                       ELSE <<>>
                    /\ raised' = fails
                    /\ store' = after
                    /\ store_before' = store
                    /\ runs' = IF fails THEN 0 ELSE IF repeat THEN 2 ELSE 1
                    /\ store_after_first' =
                          IF repeat /\ ~fails THEN store_after_first ELSE after

\* idempotent_store_embeddings is called with one of the batches
IdempotentStoreEmbeddings ==
    /\ \E batch \in Batches : idempotent_store_embeddings(batch)
    /\ UNCHANGED outside_store

-----------------------------------------------------------------------------
(* StorageManager.check_content_change                                     *)

\* Python's None
None == "None"

\* the 'limit' of the scroll of check_content_change
scroll_limit == 100

\* the points whose payload field 'url' is u
PointsOfUrl(st, u) == {id \in DOMAIN st : st[id].payload.url = u}

\* what the scroll can return: all matching points, or scroll_limit of them
ScrollPages(st, u) ==
    LET matching == PointsOfUrl(st, u)
    IN  IF Cardinality(matching) <= scroll_limit
        THEN {matching}
        ELSE {S \in SUBSET matching : Cardinality(S) = scroll_limit}

\* point.payload.get('metadata', {}).get('content_hash')
StoredHash(point) == Get(Get(point.payload, "metadata", <<>>),
                         "content_hash", None)

\* the set 'existing_hashes' built from the points the scroll returned
ExistingHashes(st, results) ==
    {StoredHash(st[id]) : id \in results} \ {None, ""}

\* mutant: the scroll has no filter on the url and returns every point
check_content_change_AnyUrl(st, u, new_hash, ok) ==
    IF ~ok THEN {<<TRUE, None>>}
    ELSE IF DOMAIN st = {} THEN {<<TRUE, None>>}
         ELSE LET existing_hashes == ExistingHashes(st, DOMAIN st)
                  changed == new_hash \notin existing_hashes
              IN  IF existing_hashes = {} THEN {<<changed, None>>}
                  ELSE {<<changed, e>> : e \in existing_hashes}

\* mutant: a failed scroll reports 'unchanged'
check_content_change_FailOpen(st, u, new_hash, ok) ==
    IF ~ok THEN {<<FALSE, None>>}
    ELSE UNION {
        IF results = {} THEN {<<TRUE, None>>}
        ELSE LET existing_hashes == ExistingHashes(st, results)
                 changed == new_hash \notin existing_hashes
             IN  IF existing_hashes = {} THEN {<<changed, None>>}
                 ELSE {<<changed, e>> : e \in existing_hashes}
        : results \in ScrollPages(st, u)}

\* StorageManager.check_content_change: the pairs (has_changed,
\* existing_hash) the call can return; ok = the scroll did not raise.  The
\* existing hash is next(iter(...)) of a set, any one of its elements
check_content_change(st, u, new_hash, ok) ==
    IF ~ok THEN {<<TRUE, None>>}
    ELSE UNION {
        IF results = {} THEN {<<TRUE, None>>}
        ELSE LET existing_hashes == ExistingHashes(st, results)
                 changed == new_hash \notin existing_hashes
             IN  IF existing_hashes = {} THEN {<<changed, None>>}
                 ELSE {<<changed, e>> : e \in existing_hashes}
        : results \in ScrollPages(st, u)}

\* the URLs and content hashes of the pages whose change is looked up
Urls == {"https://book/p1", "https://book/p2"}

content_hash_3 ==
    "fd61a03af4f77d870fc21e05e7e80678095c92d808cfb3b5c279ee04c74aca13"

ContentHashes == {content_hash_1, content_hash_2, content_hash_3}

\* the single chunk of the page at u whose text hashes to content_hash
PageChunk(u, content_hash) ==
    [EmbeddedChunk(content_hash, Slice(content_hash, 0, 16) \o "_0_1000")
        EXCEPT !.url = u]

\* the batches of a pipeline run over one page, in two versions of its text
PageBatches ==
    {<<PageChunk(u, h)>> : u \in Urls, h \in {content_hash_1, content_hash_2}}

ChangeInit ==
    /\ url = ""
    /\ new_content_hash = ""
    /\ scroll_ok = TRUE
    /\ has_changed = FALSE
    /\ existing_hash = None
    /\ store_checked = EmptyStore
    /\ checked = FALSE

\* one call of check_content_change(u, h): lines 102-147
CheckContentChange ==
    \E u \in Urls, h \in ContentHashes, ok \in BOOLEAN :
    \E result \in check_content_change(store, u, h, ok) :
        /\ url' = u
        /\ new_content_hash' = h
        /\ scroll_ok' = ok
        /\ has_changed' = result[1]
        /\ existing_hash' = result[2]
        /\ store_checked' = store
        /\ checked' = TRUE
        /\ UNCHANGED <<chunker_vars, storage_vars, harness_vars, test_vars,
                       service_vars>>

\* a pipeline run stores the chunk of one page version
StorePage ==
    /\ \E batch \in PageBatches : idempotent_store_embeddings(batch)
    /\ UNCHANGED outside_store

-----------------------------------------------------------------------------
(* run_pipeline: chunking, embedding and storage of one page.              *)

\* EmbeddingsGenerator.generate_embeddings_for_chunks: a copy of every
\* chunk, in order, with its embedding added
generate_embeddings_for_chunks(chunk_list) ==
    [i \in 1..Len(chunk_list) |->
        [k \in DOMAIN chunk_list[i] \cup {"embedding"} |->
            IF k = "embedding" THEN <<1, 0>> ELSE chunk_list[i][k]]]

\* steps 3 and 4 of run_pipeline (main.py lines 111-123) for the chunks
\* chunk_content returned: the embedding call raises, or the embedded
\* chunks go to idempotent_store_embeddings
EmbedAndStore ==
    /\ pc = "done"
    /\ \/ /\ pc' = "failed"
          /\ UNCHANGED storage_vars
       \/ /\ pc' = "stored"
          /\ idempotent_store_embeddings(generate_embeddings_for_chunks(chunks))
    /\ UNCHANGED <<chunk_size, overlap_size, content_data, content, start_idx,
                   end_idx, chunks, windows, calls, previous_ids>>
    /\ UNCHANGED <<change_vars, harness_vars, test_vars, service_vars>>

\* the next pipeline run over the page: back to step 2
CrawlAgain ==
    /\ pc = "stored"
    /\ runs < 2
    /\ pc' = "loop"
    /\ start_idx' = 0
    /\ end_idx' = 0
    /\ chunks' = <<>>
    /\ windows' = <<>>
    /\ UNCHANGED <<chunk_size, overlap_size, content_data, content, calls,
                   previous_ids>>
    /\ UNCHANGED outside_chunker

-----------------------------------------------------------------------------
(* The retrieval harness: run_performance_tests and                        *)
(* check_consistency_for_repeated_queries (utils/retrieval.py).            *)
(* Times are in milliseconds; a quotient a / b is the pair <<a, b>>.       *)

MaxQueries == 4      \* longest list of test queries
MaxRuns == 5         \* largest num_runs

\* the sum of a sequence of numbers
RECURSIVE Sum(_)
Sum(seq) == IF seq = <<>> THEN 0 ELSE Head(seq) + Sum(Tail(seq))

\* min() and max() of a non-empty sequence of numbers
MinOf(seq) == CHOOSE x \in {seq[k] : k \in DOMAIN seq} :
                 \A k \in DOMAIN seq : x <= seq[k]

MaxOf(seq) == CHOOSE x \in {seq[k] : k \in DOMAIN seq} :
                 \A k \in DOMAIN seq : x >= seq[k]

\* list.count(x)
Count(seq, x) == Cardinality({k \in DOMAIN seq : seq[k] = x})

\* what retrieve_func can hand back: a list of results (objects or dicts
\* with an id, or a dict without one), or a value that is no list
ListOf(items) == [type |-> "list", items |-> items]

NoneValue == [type |-> "NoneType"]

IntValue == [type |-> "int", value |-> 5]

Hit(id) == [id |-> id, score |-> 1]

HitWithoutId == [score |-> 1]

\* one call of retrieve_func: it raises, or returns a value after 'time'
Raises == [kind |-> "raise"]

Returns(value, time) == [kind |-> "return", value |-> value, time |-> time]

\* the 1-second threshold of the performance test
threshold_ms == 1000

RunOutcomes ==
    {Raises,
     Returns(NoneValue, 200),
     Returns(IntValue, 200),
     Returns(ListOf(<<>>), 200),
     Returns(ListOf(<<Hit("a")>>), 200),
     Returns(ListOf(<<Hit("a"), Hit("b")>>), 1500),
     Returns(ListOf(<<Hit("b")>>), 200),
     Returns(ListOf(<<HitWithoutId>>), 200)}

QueryOutcomes ==
    {Raises,
     Returns(NoneValue, 200),
     Returns(ListOf(<<Hit("a")>>), 200),
     Returns(ListOf(<<>>), threshold_ms),
     Returns(ListOf(<<Hit("a"), Hit("b")>>), 1500)}

\* bool(value)
Truthy(value) ==
    IF value.type = "list" THEN value.items # <<>>
    ELSE IF value.type = "int" THEN value.value # 0
    ELSE FALSE

\* does len(value) raise TypeError
LenRaises(value) == value.type # "list"

\* does value[0] raise (a value that cannot be indexed)
IndexRaises(value) == value.type # "list"

\* run_results[0].id if hasattr(run_results[0], 'id')
\* else run_results[0]['id']: does it raise KeyError
IdRaises(value) == "id" \notin DOMAIN value.items[1]

Queries == [k \in 1..MaxQueries |-> "query " \o ToString(k)]

HarnessInit ==
    /\ harness = "none"
    /\ harness_pc = "idle"
    /\ test_queries = <<>>
    /\ num_runs = 0
    /\ loop_i = 0
    /\ results_dict = [query |-> ""]
    /\ successful_times = <<>>
    /\ response_times = <<>>
    /\ all_results = <<>>
    /\ outcomes = <<>>
    /\ num_queries = 0
    /\ successful_queries = 0
    /\ success_rate = <<0, 1>>
    /\ metrics = [total_queries |-> 0]
    /\ exit_code = -1

\* float('inf')
Infinity == "inf"

\* the dict 'results' run_performance_tests starts from (lines 289-301)
PerformanceResults(queries) ==
    [total_queries |-> Len(queries),
     successful_queries |-> 0,
     failed_queries |-> 0,
     total_time |-> 0,
     avg_time |-> <<0, 1>>,
     min_time |-> Infinity,
     max_time |-> 0,
     throughput |-> <<0, 1>>,
     query_performance |-> <<>>,
     threshold_met |-> 0,
     threshold_percentage |-> <<0, 1>>]

\* the try statement of one iteration of run_performance_tests (lines
\* 306-328): 'results' and 'successful_times' after it
PerformanceTry(res, times, query, outcome) ==
    IF outcome.kind = "raise"
    THEN [results |-> [res EXCEPT !.failed_queries = @ + 1],
          successful_times |-> times]
    ELSE LET query_time == outcome.time
             times1 == Append(times, query_time)
         IN  IF LenRaises(outcome.value)
             THEN [results |-> [res EXCEPT !.failed_queries = @ + 1],
                   successful_times |-> times1]
             ELSE LET query_performance ==
                          [query |-> query,
                           time |-> query_time,
                           results_count |-> Len(outcome.value.items),
                           under_threshold |-> query_time < threshold_ms]
                  IN  [results |->
                          [res EXCEPT
                             !.query_performance = Append(@, query_performance),
                             !.successful_queries = @ + 1,
                             !.threshold_met =
                                 IF query_time < threshold_ms THEN @ + 1 ELSE @],
                       successful_times |-> times1]

\* the statements after the loop of run_performance_tests (lines 330-342)
PerformanceSummary(res, times, queries) ==
    IF times # <<>>
    THEN [res EXCEPT
            !.total_time = Sum(times),
            !.avg_time = <<Sum(times), Len(times)>>,
            !.min_time = MinOf(times),
            !.max_time = MaxOf(times),
            !.throughput = IF Sum(times) > 0 THEN <<Len(times), Sum(times)>>
                           ELSE <<0, 1>>,
            !.threshold_percentage = <<res.threshold_met * 100, Len(queries)>>]
    ELSE [res EXCEPT
            !.avg_time = <<0, 1>>,
            !.min_time = 0,
            !.max_time = 0,
            !.throughput = <<0, 1>>,
            !.threshold_percentage = <<0, 1>>]

\* run_performance_tests is called: lines 289-303
RunPerformanceTests ==
    /\ harness_pc = "idle"
    /\ \E n \in 0..MaxQueries :
          /\ test_queries' = SubSeq(Queries, 1, n)
          /\ results_dict' = PerformanceResults(SubSeq(Queries, 1, n))
    /\ harness' = "performance"
    /\ harness_pc' = "loop"
    /\ loop_i' = 0
    /\ successful_times' = <<>>
    /\ outcomes' = <<>>
    /\ UNCHANGED <<num_runs, response_times, all_results>>
    /\ UNCHANGED outside_harness

\* one iteration of its loop: lines 305-328
PerformanceQuery ==
    /\ harness = "performance"
    /\ harness_pc = "loop"
    /\ loop_i < Len(test_queries)
    /\ \E outcome \in QueryOutcomes :
          LET after == PerformanceTry(results_dict, successful_times,
                                      test_queries[loop_i + 1], outcome)
          IN  /\ results_dict' = after.results
              /\ successful_times' = after.successful_times
              /\ outcomes' = Append(outcomes, outcome)
    /\ loop_i' = loop_i + 1
    /\ UNCHANGED <<harness, harness_pc, test_queries, num_runs,
                   response_times, all_results>>
    /\ UNCHANGED outside_harness

\* the loop is over; the summary is computed and returned: lines 330-344
PerformanceReturn ==
    /\ harness = "performance"
    /\ harness_pc = "loop"
    /\ loop_i = Len(test_queries)
    /\ results_dict' = PerformanceSummary(results_dict, successful_times,
                                          test_queries)
    /\ harness_pc' = "returned"
    /\ UNCHANGED <<harness, test_queries, num_runs, loop_i, successful_times,
                   response_times, all_results, outcomes>>
    /\ UNCHANGED outside_harness

\* the dict 'results' check_consistency_for_repeated_queries starts from
\* (lines 369-379)
ConsistencyResults(n) ==
    [query |-> "query 1",
     num_runs |-> n,
     successful_runs |-> 0,
     failed_runs |-> 0,
     consistency_score |-> <<0, 1>>,
     avg_response_time |-> <<0, 1>>,
     response_time_variance |-> <<0, 1>>,
     results_varied |-> FALSE,
     run_details |-> <<>>]

\* mutant: a failed run is logged but not counted
ConsistencyTry_FailureUncounted(res, times, all, run, outcome) ==
    IF outcome.kind = "raise"
    THEN [results |-> res, response_times |-> times, all_results |-> all]
    ELSE LET run_results == outcome.value
             times1 == Append(times, outcome.time)
             all1 == Append(all, run_results)
         IN  IF \/ LenRaises(run_results)
                \/ Truthy(run_results) /\ IdRaises(run_results)
             THEN [results |-> res,
                   response_times |-> times1, all_results |-> all1]
             ELSE LET run_detail ==
                          [run |-> run,
                           time |-> outcome.time,
                           result_count |-> Len(run_results.items),
                           first_result_id |->
                               IF Truthy(run_results)
                               THEN run_results.items[1].id ELSE None]
                  IN  [results |->
                          [res EXCEPT !.run_details = Append(@, run_detail),
                                      !.successful_runs = @ + 1],
                       response_times |-> times1, all_results |-> all1]

\* the try statement of one iteration of
\* check_consistency_for_repeated_queries (lines 385-404): 'results',
\* 'response_times' and 'all_results' after it
ConsistencyTry(res, times, all, run, outcome) ==
    IF outcome.kind = "raise"
    THEN [results |-> [res EXCEPT !.failed_runs = @ + 1],
          response_times |-> times, all_results |-> all]
    ELSE LET run_results == outcome.value
             times1 == Append(times, outcome.time)
             all1 == Append(all, run_results)
         IN  IF \/ LenRaises(run_results)
                \/ Truthy(run_results) /\ IdRaises(run_results)
             THEN [results |-> [res EXCEPT !.failed_runs = @ + 1],
                   response_times |-> times1, all_results |-> all1]
             ELSE LET run_detail ==
                          [run |-> run,
                           time |-> outcome.time,
                           result_count |-> Len(run_results.items),
                           first_result_id |->
                               IF Truthy(run_results)
                               THEN run_results.items[1].id ELSE None]
                  IN  [results |->
                          [res EXCEPT !.run_details = Append(@, run_detail),
                                      !.successful_runs = @ + 1],
                       response_times |-> times1, all_results |-> all1]

\* the loop over all_results (lines 421-424) from entry k on: the list
\* 'first_result_ids'
RECURSIVE FirstResultIds(_, _)
FirstResultIds(all, k) ==
    IF k > Len(all) THEN <<>>
    ELSE IF Truthy(all[k])
         THEN <<all[k].items[1].id>> \o FirstResultIds(all, k + 1)
         ELSE FirstResultIds(all, k + 1)

\* does that loop raise: an entry that is true and cannot be indexed, or
\* whose first result has no id
FirstResultIdsRaises(all) ==
    \E k \in DOMAIN all :
        Truthy(all[k]) /\ (IndexRaises(all[k]) \/ IdRaises(all[k]))

\* does the part after the loop raise (lines 406-431)
ConsistencySummaryRaises(times, all) ==
    /\ times # <<>>
    /\ Len(all) > 1
    /\ FirstResultIdsRaises(all)

\* sum((t - mean) ** 2 for t in response_times) / len(response_times)
Variance(times) ==
    LET n == Len(times)
        squares == [k \in DOMAIN times |-> times[k] * times[k]]
    IN  <<n * Sum(squares) - Sum(times) * Sum(times), n * n>>

\* the part after the loop when it does not raise: 'results' as returned
ConsistencySummary(res, times, all) ==
    IF times = <<>> THEN res
    ELSE LET res1 == [res EXCEPT
                        !.avg_response_time = <<Sum(times), Len(times)>>,
                        !.response_time_variance =
                            IF Len(times) > 1 THEN Variance(times)
                            ELSE <<0, 1>>]
         IN  IF Len(all) > 1
             THEN LET first_result_ids == FirstResultIds(all, 1)
                  IN  IF first_result_ids # <<>>
                      THEN LET ids == {first_result_ids[k] :
                                          k \in DOMAIN first_result_ids}
                               most_common_id ==
                                   CHOOSE x \in ids : \A y \in ids :
                                       Count(first_result_ids, x)
                                          >= Count(first_result_ids, y)
                               consistent_runs ==
                                   Count(first_result_ids, most_common_id)
                           IN  [res1 EXCEPT
                                  !.consistency_score =
                                      <<consistent_runs, Len(first_result_ids)>>,
                                  !.results_varied = Cardinality(ids) > 1]
                      ELSE res1
             ELSE res1

\* check_consistency_for_repeated_queries is called: lines 369-382
CheckConsistency ==
    /\ harness_pc = "idle"
    /\ \E n \in 0..MaxRuns :
          /\ num_runs' = n
          /\ results_dict' = ConsistencyResults(n)
    /\ harness' = "consistency"
    /\ harness_pc' = "loop"
    /\ loop_i' = 0
    /\ response_times' = <<>>
    /\ all_results' = <<>>
    /\ outcomes' = <<>>
    /\ UNCHANGED <<test_queries, successful_times>>
    /\ UNCHANGED outside_harness

\* one iteration of its loop: lines 384-404
ConsistencyRun ==
    /\ harness = "consistency"
    /\ harness_pc = "loop"
    /\ loop_i < num_runs
    /\ \E outcome \in RunOutcomes :
          LET after == ConsistencyTry(results_dict, response_times,
                                      all_results, loop_i + 1, outcome)
          IN  /\ results_dict' = after.results
              /\ response_times' = after.response_times
              /\ all_results' = after.all_results
              /\ outcomes' = Append(outcomes, outcome)
    /\ loop_i' = loop_i + 1
    /\ UNCHANGED <<harness, harness_pc, test_queries, num_runs,
                   successful_times>>
    /\ UNCHANGED outside_harness

\* the loop is over; the part after it raises, or the function returns:
\* lines 406-433
ConsistencyReturn ==
    /\ harness = "consistency"
    /\ harness_pc = "loop"
    /\ loop_i = num_runs
    /\ IF ConsistencySummaryRaises(response_times, all_results)
       THEN /\ harness_pc' = "raised"
            /\ UNCHANGED results_dict
       ELSE /\ harness_pc' = "returned"
            /\ results_dict' = ConsistencySummary(results_dict,
                                                  response_times, all_results)
    /\ UNCHANGED <<harness, test_queries, num_runs, loop_i, successful_times,
                   response_times, all_results, outcomes>>
    /\ UNCHANGED outside_harness

-----------------------------------------------------------------------------
(* performance_test.py: run_performance_test, analyze_performance, main.   *)

MaxNumQueries == 21  \* largest num_queries

\* float('inf'), the response time recorded for a failed query, as a time
\* no query takes
float_inf == 1000000000

Quick == Returns(ListOf(<<Hit("a")>>), 200)

AtThreshold == Returns(ListOf(<<Hit("a")>>), threshold_ms)

Slow == Returns(ListOf(<<Hit("a")>>), 1500)

\* what the n retrieve_content calls of one test do: some raise, some are
\* quick, some take exactly one second and the others longer
OutcomePatterns(n) ==
    {[k \in 1..n |-> IF k <= f THEN Raises
                     ELSE IF k <= f + q THEN Quick
                     ELSE IF k <= f + q + b THEN AtThreshold
                     ELSE Slow] :
        f \in 0..n, q \in 0..n, b \in 0..1}

\* the loop of run_performance_test from query k on (lines 65-88)
RECURSIVE TestLoop(_, _, _, _)
TestLoop(outs, k, times, succeeded) ==
    IF k > Len(outs)
    THEN [response_times |-> times, successful_queries |-> succeeded]
    ELSE IF outs[k].kind = "raise"
         THEN TestLoop(outs, k + 1, Append(times, float_inf), succeeded)
         ELSE LET times1 == Append(times, outs[k].time)
              IN  IF LenRaises(outs[k].value)
                  THEN TestLoop(outs, k + 1, Append(times1, float_inf),
                                succeeded + 1)
                  ELSE TestLoop(outs, k + 1, times1, succeeded + 1)

\* analyze_performance (lines 94-159); int(0.95 * n) is (95 * n) \div 100
analyze_performance(times) ==
    IF times = <<>>
    THEN [total_queries |-> 0, successful_queries |-> 0, failed_queries |-> 0,
          avg_response_time |-> <<0, 1>>, min_response_time |-> 0,
          max_response_time |-> 0, p95_response_time |-> 0,
          under_1s_percentage |-> <<0, 1>>, under_1s_count |-> 0,
          threshold_met |-> FALSE]
    ELSE LET NotInf(t) == t # float_inf
             Under(t) == t < threshold_ms
             successful_times_ == SelectSeq(times, NotInf)
             n == Len(successful_times_)
             failed_count == Len(times) - n
         IN  IF n > 0
             THEN LET sorted_times == SortSeq(successful_times_, <)
                      p95_idx == IF (95 * n) \div 100 >= n THEN n - 1
                                 ELSE (95 * n) \div 100
                      under_1s_count ==
                          Len(SelectSeq(successful_times_, Under))
                  IN  [total_queries |-> Len(times),
                       successful_queries |-> n,
                       failed_queries |-> failed_count,
                       avg_response_time |-> <<Sum(successful_times_), n>>,
                       min_response_time |-> MinOf(successful_times_),
                       max_response_time |-> MaxOf(successful_times_),
                       p95_response_time |-> sorted_times[p95_idx + 1],
                       under_1s_percentage |-> <<under_1s_count * 100, n>>,
                       under_1s_count |-> under_1s_count,
                       threshold_met |-> under_1s_count * 100 >= 95 * n]
             ELSE [total_queries |-> Len(times),
                   successful_queries |-> 0,
                   failed_queries |-> failed_count,
                   avg_response_time |-> <<0, 1>>,
                   min_response_time |-> 0,
                   max_response_time |-> 0,
                   p95_response_time |-> 0,
                   under_1s_percentage |-> <<0, 1>>,
                   under_1s_count |-> 0,
                   threshold_met |-> FALSE]

\* the quotient rate is at least 0.95
AtLeast95Percent(rate) == rate[1] * 100 >= 95 * rate[2]

\* run_performance_test(n) (lines 21-91): the setup fails, or the n queries
\* are run
RunPerformanceTest ==
    /\ harness_pc = "idle"
    /\ \E n \in 0..MaxNumQueries, setup_ok \in BOOLEAN :
          /\ num_queries' = n
          /\ IF setup_ok
             THEN \E outs \in OutcomePatterns(n) :
                     LET after == TestLoop(outs, 1, <<>>, 0)
                     IN  /\ outcomes' = outs
                         /\ response_times' = after.response_times
                         /\ successful_queries' = after.successful_queries
                         /\ success_rate' =
                               IF n > 0 THEN <<after.successful_queries, n>>
                               ELSE <<0, 1>>
             ELSE /\ outcomes' = <<>>
                  /\ response_times' = <<>>
                  /\ successful_queries' = 0
                  /\ success_rate' = <<0, 1>>
    /\ harness' = "performance_test"
    /\ harness_pc' = "ran"
    /\ UNCHANGED <<test_queries, num_runs, loop_i, results_dict,
                   successful_times, all_results, metrics, exit_code>>
    /\ UNCHANGED outside_harness_and_test

\* main line 171: metrics = analyze_performance(response_times)
AnalyzePerformance ==
    /\ harness = "performance_test"
    /\ harness_pc = "ran"
    /\ metrics' = analyze_performance(response_times)
    /\ harness_pc' = "analyzed"
    /\ UNCHANGED <<num_queries, successful_queries, success_rate, exit_code>>
    /\ UNCHANGED <<harness, test_queries, num_runs, loop_i, results_dict,
                   successful_times, response_times, all_results, outcomes>>
    /\ UNCHANGED outside_harness_and_test

\* main lines 196-203: the overall result and the exit code
MainResult ==
    /\ harness = "performance_test"
    /\ harness_pc = "analyzed"
    /\ exit_code' = IF metrics.threshold_met /\ AtLeast95Percent(success_rate)
                    THEN 0 ELSE 1
    /\ harness_pc' = "returned"
    /\ UNCHANGED <<num_queries, successful_queries, success_rate, metrics>>
    /\ UNCHANGED <<harness, test_queries, num_runs, loop_i, results_dict,
                   successful_times, response_times, all_results, outcomes>>
    /\ UNCHANGED outside_harness_and_test

-----------------------------------------------------------------------------
(* calculate_accuracy_score and run_validation_test (utils/retrieval.py).  *)
(* A similarity score is a number of hundredths: 85 is the score 0.85.     *)

MaxChunks == 2       \* longest list of retrieved chunks

\* quotients with positive denominators: sum, order, minimum
QAdd(a, b) == <<a[1] * b[2] + b[1] * a[2], a[2] * b[2]>>

QLeq(a, b) == a[1] * b[2] <= b[1] * a[2]

QMin(a, b) == IF QLeq(a, b) THEN a ELSE b

\* str.lower() on the letters of the texts below
LowerChar(c) ==
    CASE c = "R" -> "r" [] c = "O" -> "o" [] c = "B" -> "b" [] c = "T" -> "t"
      [] c = "W" -> "w" [] c = "A" -> "a" [] c = "L" -> "l" [] c = "K" -> "k"
      [] OTHER -> c

RECURSIVE Lower(_)
Lower(text) ==
    IF text = "" THEN ""
    ELSE LowerChar(CharAt(text, 0)) \o Lower(Slice(text, 1, Len(text)))

\* set(text.split()): the maximal runs of non-whitespace characters
WordSet(text) ==
    LET starts == {i \in 0..(Len(text) - 1) :
                      /\ ~IsSpace(CharAt(text, i))
                      /\ (i = 0 \/ IsSpace(CharAt(text, i - 1)))}
        EndOf(i) == CHOOSE j \in (i + 1)..Len(text) :
                       /\ (j = Len(text) \/ IsSpace(CharAt(text, j)))
                       /\ \A k \in i..(j - 1) : ~IsSpace(CharAt(text, k))
    IN  {Slice(text, i, EndOf(i)) : i \in starts}

\* the outcome of a division by zero: no quotient
ZeroDivisionError == <<0, 0>>

\* a / b for integers
Divide(a, b) == IF b = 0 THEN ZeroDivisionError ELSE <<a, b>>

\* a RetrievedChunk, reduced to the fields the score reads
Chunk(chunk_content, score) == [content |-> chunk_content, score |-> score]

\* the loop of calculate_accuracy_score from chunk k on (lines 155-162):
\* total_score and valid_chunks after it, or the error that ended it
RECURSIVE AccuracyLoop(_, _, _, _, _)
AccuracyLoop(retrieved_chunks, expected_lower, k, total_score, valid_chunks) ==
    IF k > Len(retrieved_chunks)
    THEN [total_score |-> total_score, valid_chunks |-> valid_chunks,
          raised |-> FALSE]
    ELSE LET chunk == retrieved_chunks[k]
             chunk_content == Lower(chunk.content)
             common_words ==
                 WordSet(expected_lower) \cap WordSet(chunk_content)
         IN  IF common_words # {}
             THEN LET overlap_score ==
                          Divide(Cardinality(common_words),
                                 Cardinality(WordSet(expected_lower)))
                  IN  IF overlap_score = ZeroDivisionError
                      THEN [total_score |-> total_score,
                            valid_chunks |-> valid_chunks, raised |-> TRUE]
                      ELSE AccuracyLoop(retrieved_chunks, expected_lower,
                               k + 1,
                               QAdd(total_score,
                                    QMin(overlap_score, <<chunk.score, 100>>)),
                               valid_chunks + 1)
             ELSE AccuracyLoop(retrieved_chunks, expected_lower, k + 1,
                               total_score, valid_chunks)

\* calculate_accuracy_score (lines 136-167) on a list of chunks
calculate_accuracy_score(retrieved_chunks, expected_content) ==
    IF retrieved_chunks = <<>>
    THEN <<0, 1>>
    ELSE LET after == AccuracyLoop(retrieved_chunks, Lower(expected_content),
                                   1, <<0, 1>>, 0)
         IN  IF after.raised THEN ZeroDivisionError
             ELSE IF after.valid_chunks = 0 THEN <<0, 1>>
             ELSE <<after.total_score[1],
                    after.total_score[2] * after.valid_chunks>>

\* mutant: the test passes only above the threshold
Passes_Above(score) == score[1] * 100 > 85 * score[2]

\* accuracy >= 0.85
Passes(score) == score[1] * 100 >= 85 * score[2]

\* the dict of the except branch of run_validation_test (lines 266-272)
ValidationError(query, expected_content, message) ==
    [query |-> query, expected |-> expected_content, error |-> message,
     passed |-> FALSE, accuracy_score |-> <<0, 1>>]

\* run_validation_test (lines 233-272), given what retrieve_func did
run_validation_test(query, expected_content, outcome) ==
    IF outcome.kind = "raise"
    THEN ValidationError(query, expected_content, "retrieve_func raised")
    ELSE LET results == outcome.value
         IN  IF Truthy(results) /\ results.type # "list"
             THEN ValidationError(query, expected_content, "TypeError")
             ELSE LET score == IF Truthy(results)
                               THEN calculate_accuracy_score(results.items,
                                                             expected_content)
                               ELSE <<0, 1>>
                  IN  IF score = ZeroDivisionError
                      THEN ValidationError(query, expected_content,
                                           "ZeroDivisionError")
                      ELSE [query |-> query,
                            expected |-> expected_content,
                            retrieved_count |->
                                IF Truthy(results) THEN Len(results.items)
                                ELSE 0,
                            accuracy_score |-> score,
                            passed |-> Passes(score),
                            results |-> results]

\* the expected texts: none, one made of whitespace, one and two words
ExpectedTexts == {"", " ", "Robots", "Robots walk"}

\* the contents of the retrieved chunks
ChunkContents == {"", "robots", "ROBOTS walk", "talk"}

\* the similarity scores of a cosine search, in hundredths
Scores == {-100, -50, 0, 50, 85, 100}

RetrievedChunks == {Chunk(c, sc) : c \in ChunkContents, sc \in Scores}

ChunkLists == UNION {[1..n -> RetrievedChunks] : n \in 0..MaxChunks}

\* what retrieve_func can do in a validation test
ValidationOutcomes ==
    {Raises, Returns(NoneValue, 200), Returns(IntValue, 200)}
        \cup {Returns(ListOf(chunk_list), 200) : chunk_list \in ChunkLists}

ValidationInit ==
    /\ validation_pc = "idle"
    /\ retrieved = Raises
    /\ expected = ""
    /\ accuracy = <<0, 1>>
    /\ validation = [query |-> ""]

\* one call of calculate_accuracy_score
CalculateAccuracyScore ==
    /\ validation_pc = "idle"
    /\ \E chunk_list \in ChunkLists, expected_content \in ExpectedTexts :
          /\ retrieved' = Returns(ListOf(chunk_list), 0)
          /\ expected' = expected_content
          /\ accuracy' = calculate_accuracy_score(chunk_list, expected_content)
    /\ validation_pc' = "scored"
    /\ UNCHANGED validation
    /\ UNCHANGED outside_validation

\* one call of run_validation_test
RunValidationTest ==
    /\ validation_pc = "idle"
    /\ \E outcome \in ValidationOutcomes, expected_content \in ExpectedTexts :
          /\ retrieved' = outcome
          /\ expected' = expected_content
          /\ validation' =
                run_validation_test("robots", expected_content, outcome)
    /\ validation_pc' = "tested"
    /\ UNCHANGED accuracy
    /\ UNCHANGED outside_validation

-----------------------------------------------------------------------------
(* retrieve.py: retrieve_content and main, with validate_query_text,       *)
(* validate_top_k_value, format_retrieved_chunks (utils/retrieval.py) and  *)
(* StorageManager.search_similar (utils/storage.py).                       *)

MaxHits == 2         \* longest list of search hits

max_query_length == 10000

max_top_k == 100

\* mutant: a query of two characters is long enough
validate_query_text_TwoChars(query_text) ==
    IF query_text = "" \/ Strip(query_text) = ""
    THEN <<FALSE, "Query text cannot be empty">>
    ELSE IF Len(Strip(query_text)) < 2
    THEN <<FALSE, "Query text must be at least 3 characters long">>
    ELSE IF Len(query_text) > max_query_length
    THEN <<FALSE, "Query text is too long (max 10000 characters)">>
    ELSE <<TRUE, "Query text is valid">>

\* validate_query_text (lines 44-70) on a text that encodes as UTF-8
validate_query_text(query_text) ==
    IF query_text = "" \/ Strip(query_text) = ""
    THEN <<FALSE, "Query text cannot be empty">>
    ELSE IF Len(Strip(query_text)) < 3
    THEN <<FALSE, "Query text must be at least 3 characters long">>
    ELSE IF Len(query_text) > max_query_length
    THEN <<FALSE, "Query text is too long (max 10000 characters)">>
    ELSE <<TRUE, "Query text is valid">>

\* validate_top_k_value (lines 189-205)
validate_top_k_value(k) ==
    IF k < 1
    THEN <<FALSE, "top_k must be a positive integer (at least 1)">>
    ELSE IF k > max_top_k
    THEN <<FALSE, "top_k must not exceed 100">>
    ELSE <<TRUE, "top_k value is valid">>

\* RetrievedChunk (lines 25-34)
RetrievedChunk(id, text, link, title, headings, score, metadata) ==
    [id |-> id, content |-> text, url |-> link,
     title |-> title, headings |-> headings, score |-> score,
     metadata |-> metadata]

\* an empty dict
EmptyDict == [k \in {} |-> k]

\* mutant: the chunks come out in reverse order
format_retrieved_chunks_Reversed(raw) ==
    [i \in 1..Len(raw) |->
        LET result == raw[Len(raw) + 1 - i]
            payload == Get(result, "payload", EmptyDict)
        IN  RetrievedChunk(Get(result, "id", ""),
                           Get(payload, "content", ""),
                           Get(payload, "url", ""),
                           Get(payload, "title", ""),
                           Get(payload, "headings", <<>>),
                           Get(result, "score", 0),
                           Get(payload, "metadata", EmptyDict))]

\* format_retrieved_chunks (lines 106-133)
format_retrieved_chunks(raw) ==
    [i \in 1..Len(raw) |->
        LET result == raw[i]
            payload == Get(result, "payload", EmptyDict)
        IN  RetrievedChunk(Get(result, "id", ""),
                           Get(payload, "content", ""),
                           Get(payload, "url", ""),
                           Get(payload, "title", ""),
                           Get(payload, "headings", <<>>),
                           Get(result, "score", 0),
                           Get(payload, "metadata", EmptyDict))]

\* the dict search_similar builds of a scored point (lines 238-245)
RawHit(id, payload, score) == [id |-> id, payload |-> payload, score |-> score]

\* the payload store_embeddings gives a point (lines 163-169)
Payload(n) ==
    [url |-> "https://book/p" \o n, title |-> "Page " \o n,
     headings |-> <<"Heading " \o n>>, content |-> "content " \o n,
     metadata |-> [content_hash |-> "hash" \o n]]

\* the scored points of a search: points of this pipeline, and a point
\* whose payload has only a content
ScoredPoints ==
    {RawHit("id1", Payload("1"), 90),
     RawHit("id2", Payload("2"), 85),
     RawHit("id3", [content |-> "content 3"], -10)}

\* the lists of distinct points client.search returns for a limit
SearchResults(limit) ==
    {hits \in UNION {[1..n -> ScoredPoints] : n \in 0..MaxHits} :
        /\ Len(hits) <= limit
        /\ \A i, j \in DOMAIN hits : i # j => hits[i] # hits[j]}

\* the vector the embedding service returns for a text
EmbeddingOf(text) == [embedding_of |-> text]

\* the queries: empty, whitespace, short, valid, and at the length limit
QueryTexts ==
    {"", "  ", "ab", " ab\n", "abc", " abc ", "What is physical AI?",
     Rep("a", max_query_length), Rep("a", max_query_length + 1),
     Rep(" ", max_query_length + 1)}

TopKs == {-1, 0, 1, 5, max_top_k, max_top_k + 1}

ValueError(message) ==
    [kind |-> "raise", error |-> "ValueError", message |-> message]

ServiceError(message) ==
    [kind |-> "raise", error |-> "Exception", message |-> message]

RetrieveInit ==
    /\ retrieve_pc = "idle"
    /\ args_query = ""
    /\ args_top_k = 0
    /\ embed_calls = <<>>
    /\ search_calls = <<>>
    /\ search_failed = FALSE
    /\ search_hits = <<>>
    /\ retrieve_result = Raises
    /\ main_pc = "idle"
    /\ exit_calls = <<>>

\* retrieve_content up to its try block (lines 290-310): the validation
retrieve_content(query_text, k) ==
    /\ args_query' = query_text
    /\ args_top_k' = k
    /\ embed_calls' = <<>>
    /\ search_calls' = <<>>
    /\ search_failed' = FALSE
    /\ search_hits' = <<>>
    /\ IF ~validate_query_text(query_text)[1]
       THEN /\ retrieve_pc' = "raised"
            /\ retrieve_result' =
                  ValueError("Query validation failed: "
                                \o validate_query_text(query_text)[2])
       ELSE IF ~validate_top_k_value(k)[1]
       THEN /\ retrieve_pc' = "raised"
            /\ retrieve_result' =
                  ValueError("top_k validation failed: "
                                \o validate_top_k_value(k)[2])
       ELSE /\ retrieve_pc' = "embedding"
            /\ retrieve_result' = Raises

\* a call of retrieve_content by a caller other than main
RetrieveContent ==
    /\ retrieve_pc = "idle"
    /\ main_pc = "idle"
    /\ \E query_text \in QueryTexts, k \in TopKs :
          retrieve_content(query_text, k)
    /\ UNCHANGED main_vars
    /\ UNCHANGED outside_retrieve

\* lines 313-316: generate_embedding_for_chunk returns a vector, or the
\* embedding service fails and the exception leaves retrieve_content
GenerateEmbedding ==
    /\ retrieve_pc = "embedding"
    /\ embed_calls' = Append(embed_calls, [content |-> args_query])
    /\ \E embedded \in BOOLEAN :
          IF embedded
          THEN /\ retrieve_pc' = "searching"
               /\ UNCHANGED retrieve_result
          ELSE /\ retrieve_pc' = "raised"
               /\ retrieve_result' = ServiceError("Cohere connection error")
    /\ UNCHANGED <<args_query, args_top_k, search_calls, search_failed,
                   search_hits>>
    /\ UNCHANGED main_vars
    /\ UNCHANGED outside_retrieve

\* search_similar (storage.py lines 229-251), given what client.search did
search_similar(found, failed) == IF failed THEN <<>> ELSE found

\* lines 319-346: the similarity search, the formatting and the return
SearchSimilar ==
    /\ retrieve_pc = "searching"
    /\ search_calls' =
          Append(search_calls,
                 [query_embedding |-> EmbeddingOf(args_query),
                  limit |-> args_top_k])
    /\ \E failed \in BOOLEAN, found \in SearchResults(args_top_k) :
          /\ failed => found = <<>>
          /\ search_failed' = failed
          /\ search_hits' = search_similar(found, failed)
          /\ retrieve_result' =
                Returns(ListOf(format_retrieved_chunks(
                                   search_similar(found, failed))), 200)
    /\ retrieve_pc' = "returned"
    /\ UNCHANGED <<args_query, args_top_k, embed_calls>>
    /\ UNCHANGED main_vars
    /\ UNCHANGED outside_retrieve

\* main without test flags, up to its call of retrieve_content
\* (lines 81-105, 233-239)
MainStart ==
    /\ main_pc = "idle"
    /\ retrieve_pc = "idle"
    /\ \E config_valid \in BOOLEAN, initialized \in BOOLEAN :
          IF config_valid /\ initialized
          THEN /\ \E query_text \in QueryTexts, k \in TopKs :
                     retrieve_content(query_text, k)
               /\ main_pc' = "retrieving"
               /\ UNCHANGED exit_calls
          ELSE /\ exit_calls' = Append(exit_calls, 1)
               /\ main_pc' = "exited"
               /\ UNCHANGED retrieve_vars
    /\ UNCHANGED outside_retrieve

\* main after retrieve_content (lines 241-264): the results are printed and
\* main returns, or the exception is reported and main exits with 1
MainFinish ==
    /\ main_pc = "retrieving"
    /\ retrieve_pc \in {"returned", "raised"}
    /\ IF retrieve_pc = "returned"
       THEN /\ main_pc' = "returned"
            /\ UNCHANGED exit_calls
       ELSE /\ exit_calls' = Append(exit_calls, 1)
            /\ main_pc' = "exited"
    /\ UNCHANGED retrieve_vars
    /\ UNCHANGED outside_retrieve

-----------------------------------------------------------------------------
(* Chunker._split_large_chunk called on its own.                           *)

\* the texts and maximum sizes of the direct calls: every small text longer
\* than a small maximum, and the oversized texts with the maximum of
\* chunk_content
SplitInputs ==
    {<<text, max_size>> \in SmallTexts \X (1..MaxChunkSize) :
        Len(text) > max_size}
    \cup {<<text, max_chunk_size>> : text \in
            {t \in LargeTexts : Len(t) > max_chunk_size}}

SplitInit ==
    /\ split_pc = "idle"
    /\ split_text = ""
    /\ split_max_size = 0
    /\ split_result = <<>>

\* one call of _split_large_chunk (lines 127-160)
SplitLargeChunk ==
    /\ split_pc = "idle"
    /\ pc = "idle"
    /\ \E input \in SplitInputs :
          /\ split_text' = input[1]
          /\ split_max_size' = input[2]
          /\ split_result' = _split_large_chunk(input[1], input[2])
    /\ split_pc' = "returned"
    /\ UNCHANGED outside_split

\* chunk_content is called by a Chunker that has made no direct call
ChunkOversized == split_pc = "idle" /\ ChunkCall

-----------------------------------------------------------------------------
(* retry_with_backoff (utils/retrieval.py).  Delays are in milliseconds.   *)

MaxRetries == 3      \* largest max_retries

\* 2 ** n
RECURSIVE Pow2(_)
Pow2(n) == IF n = 0 THEN 1 ELSE 2 * Pow2(n - 1)

\* random.uniform(0, 1): its two ends and its middle, in milliseconds
Jitters == {0, 500, 1000}

\* one call of func: it returns, raises an exception of 'exceptions', or
\* raises another exception
FuncReturns(n) == [kind |-> "return", value |-> "result " \o ToString(n)]

FuncRaisesListed(n) ==
    [kind |-> "raise", listed |-> TRUE, error |-> "error " \o ToString(n)]

FuncRaisesOther(n) ==
    [kind |-> "raise", listed |-> FALSE, error |-> "error " \o ToString(n)]

FuncOutcomes(n) == {FuncReturns(n), FuncRaisesListed(n), FuncRaisesOther(n)}

RetryLogicError ==
    [kind |-> "raise", listed |-> FALSE, error |-> "Retry logic error"]

RetryInit ==
    /\ retry_pc = "idle"
    /\ max_retries = 0
    /\ backoff_factor = 1
    /\ attempt = 0
    /\ func_outcomes = <<>>
    /\ delays = <<>>
    /\ retry_result = [kind |-> "none"]

\* the call, up to the first test of the for loop (lines 73-88): the range
\* is empty and line 103 raises, or the first attempt begins
RetryWithBackoff ==
    /\ retry_pc = "idle"
    /\ \E retries \in -1..MaxRetries, factor \in {1, 2} :
          /\ max_retries' = retries
          /\ backoff_factor' = factor
          /\ IF retries + 1 <= 0
             THEN /\ retry_pc' = "raised"
                  /\ retry_result' = RetryLogicError
             ELSE /\ retry_pc' = "calling"
                  /\ UNCHANGED retry_result
    /\ attempt' = 0
    /\ UNCHANGED <<func_outcomes, delays>>
    /\ UNCHANGED outside_retry

\* lines 89-99: func is called; it returns, or its exception is not listed
\* or the attempt is the last one and the exception leaves the function,
\* or the delay is computed and the sleep begins
RetryAttempt ==
    /\ retry_pc = "calling"
    /\ \E outcome \in FuncOutcomes(attempt + 1) :
          /\ func_outcomes' = Append(func_outcomes, outcome)
          /\ IF outcome.kind = "return"
             THEN /\ retry_pc' = "returned"
                  /\ retry_result' = outcome
                  /\ UNCHANGED delays
             ELSE IF ~outcome.listed \/ attempt = max_retries
             THEN /\ retry_pc' = "raised"
                  /\ retry_result' = outcome
                  /\ UNCHANGED delays
             ELSE /\ \E jitter \in Jitters :
                        delays' = Append(delays,
                                         backoff_factor * Pow2(attempt) * 1000
                                            + jitter)
                  /\ retry_pc' = "sleeping"
                  /\ UNCHANGED retry_result
    /\ UNCHANGED <<max_retries, backoff_factor, attempt>>
    /\ UNCHANGED outside_retry

\* time.sleep(delay) returns and the loop goes on (lines 100, 88): the
\* range is exhausted and line 103 raises, or the next attempt begins
RetrySleep ==
    /\ retry_pc = "sleeping"
    /\ attempt' = attempt + 1
    /\ IF attempt + 1 < max_retries + 1
       THEN /\ retry_pc' = "calling"
            /\ UNCHANGED retry_result
       ELSE /\ retry_pc' = "raised"
            /\ retry_result' = RetryLogicError
    /\ UNCHANGED <<max_retries, backoff_factor, func_outcomes, delays>>
    /\ UNCHANGED outside_retry

-----------------------------------------------------------------------------
(* Crawler.crawl_website (utils/crawler.py).                               *)

MaxPages == 3        \* largest max_pages
MaxLinks == 2        \* longest list of links find_links returns

\* the pages of the site
SitePages == {"https://book/", "https://book/a", "https://book/b"}

\* what find_links can return for a page: any list of pages of the site,
\* the page itself and repeated links included (the empty list also when
\* its request fails)
LinkLists == UNION {[1..n -> SitePages] : n \in 0..MaxLinks}

\* lines 171-173, from link k on: the links not yet visited and not yet
\* queued are appended to to_visit
RECURSIVE Enqueue(_, _, _, _)
Enqueue(queue, new_links, k, visited) ==
    IF k > Len(new_links) THEN queue
    ELSE LET link == new_links[k]
             queued == \E j \in DOMAIN queue : queue[j] = link
         IN  IF link \notin visited /\ ~queued
             THEN Enqueue(Append(queue, link), new_links, k + 1, visited)
             ELSE Enqueue(queue, new_links, k + 1, visited)

CrawlerInit ==
    /\ crawl_pc = "idle"
    /\ start_url = ""
    /\ max_pages = 0
    /\ visited_urls = {}
    /\ to_visit = <<>>
    /\ crawl_results = <<>>
    /\ http_gets = <<>>
    /\ visits = <<>>
    /\ iterations = 0

\* crawl_website up to its loop (lines 144-152)
CrawlWebsite ==
    /\ crawl_pc = "idle"
    /\ \E page \in SitePages, pages \in 0..MaxPages :
          /\ start_url' = page
          /\ max_pages' = pages
          /\ to_visit' = <<page>>
    /\ visited_urls' = {}
    /\ crawl_results' = <<>>
    /\ crawl_pc' = "loop"
    /\ UNCHANGED <<http_gets, visits, iterations>>
    /\ UNCHANGED outside_crawler

\* one iteration of the while loop (lines 154-173); get_page_content and
\* find_links each request the page (lines 35 and 94)
CrawlLoop ==
    /\ crawl_pc = "loop"
    /\ to_visit # <<>>
    /\ Cardinality(visited_urls) < max_pages
    /\ iterations' = iterations + 1
    /\ LET current_url == Head(to_visit)
       IN  IF current_url \in visited_urls
           THEN /\ to_visit' = Tail(to_visit)
                /\ UNCHANGED <<visited_urls, crawl_results, http_gets, visits>>
           ELSE \E extracted \in BOOLEAN, new_links \in LinkLists :
                   /\ visited_urls' = visited_urls \cup {current_url}
                   /\ crawl_results' =
                         IF extracted
                         THEN Append(crawl_results, [url |-> current_url])
                         ELSE crawl_results
                   /\ http_gets' = http_gets \o <<current_url, current_url>>
                   /\ to_visit' = Enqueue(Tail(to_visit), new_links, 1,
                                          visited_urls \cup {current_url})
                   /\ visits' = Append(visits, [url |-> current_url,
                                                extracted |-> extracted,
                                                new_links |-> new_links])
    /\ UNCHANGED <<start_url, max_pages, crawl_pc>>
    /\ UNCHANGED outside_crawler

\* the loop condition fails and crawl_website returns 'results'
\* (lines 154, 175-176)
CrawlReturn ==
    /\ crawl_pc = "loop"
    /\ ~(to_visit # <<>> /\ Cardinality(visited_urls) < max_pages)
    /\ crawl_pc' = "returned"
    /\ UNCHANGED <<start_url, max_pages, visited_urls, to_visit, crawl_results,
                   http_gets, visits, iterations>>
    /\ UNCHANGED outside_crawler

-----------------------------------------------------------------------------
(* Specifications.                                                         *)

\* the retrieval service and its helpers before any call
ServiceInit ==
    ValidationInit /\ RetrieveInit /\ SplitInit /\ RetryInit /\ CrawlerInit

\* one Chunker, from its construction on
Init ==
    ChunkerInit /\ StorageInit /\ ChangeInit /\ HarnessInit /\ ServiceInit

Next == ChunkCall \/ ChunkLoop \/ ChunkReturn

Spec == Init /\ [][Next]_vars

\* two chunk_content calls on one document, one after the other
RerunNext == ChunkCall \/ ChunkLoop \/ ChunkReturn \/ ChunkAgain

RerunSpec == Init /\ [][RerunNext]_vars

\* run_pipeline over one page, from an empty collection on
PipelineNext ==
    ChunkCall \/ ChunkLoop \/ ChunkReturn \/ EmbedAndStore \/ CrawlAgain

\* the configurations of the pipeline runs: the default one, its variant
\* without overlap, and small ones with and without overlap
PipelineConfigs == ReferenceConfigs \cup {<<MaxChunkSize, 0>>, <<1, MaxOverlap>>}

PipelineInit == Init /\ <<chunk_size, overlap_size>> \in PipelineConfigs

PipelineSpec == PipelineInit /\ [][PipelineNext]_vars

\* one StorageManager and its collection, from an empty collection on
StoreInit ==
    /\ StorageInit
    /\ ChangeInit
    /\ HarnessInit
    /\ ServiceInit
    /\ chunk_size = 1000
    /\ overlap_size = 100
    /\ content_data = NoDocument
    /\ content = ""
    /\ start_idx = 0
    /\ end_idx = 0
    /\ chunks = <<>>
    /\ windows = <<>>
    /\ pc = "idle"
    /\ calls = 0
    /\ previous_ids = <<>>

StoreNext == IdempotentStoreEmbeddings

StoreSpec == StoreInit /\ [][StoreNext]_vars

\* one call of a harness function, with every pattern of retrieval outcomes
HarnessNext ==
    \/ RunPerformanceTests \/ PerformanceQuery \/ PerformanceReturn
    \/ CheckConsistency \/ ConsistencyRun \/ ConsistencyReturn

HarnessSpec == StoreInit /\ [][HarnessNext]_vars

\* one run of the performance test program
TestNext == RunPerformanceTest \/ AnalyzePerformance \/ MainResult

TestSpec == StoreInit /\ [][TestNext]_vars

\* _split_large_chunk called on its own, and called by chunk_content on
\* documents with oversized windows
SplitNext == SplitLargeChunk \/ ChunkOversized \/ ChunkLoop \/ ChunkReturn

SplitSpecInit == Init /\ <<chunk_size, overlap_size>> \in LargeConfigs

SplitSpec == SplitSpecInit /\ [][SplitNext]_vars

\* one crawl of a site, with every link structure
CrawlerNext == CrawlWebsite \/ CrawlLoop \/ CrawlReturn

CrawlerSpec == StoreInit /\ [][CrawlerNext]_vars

\* one call of retry_with_backoff, with every behaviour of func
RetryNext == RetryWithBackoff \/ RetryAttempt \/ RetrySleep

RetrySpec == StoreInit /\ [][RetryNext]_vars

\* one call of retrieve_content, with every behaviour of its collaborators
RetrieveNext == RetrieveContent \/ GenerateEmbedding \/ SearchSimilar

RetrieveSpec == StoreInit /\ [][RetrieveNext]_vars

\* one run of retrieve.py without test flags
MainNext == MainStart \/ GenerateEmbedding \/ SearchSimilar \/ MainFinish

MainSpec == StoreInit /\ [][MainNext]_vars

\* one call of a validation function, with every retrieval outcome
ValidationNext == CalculateAccuracyScore \/ RunValidationTest

ValidationSpec == StoreInit /\ [][ValidationNext]_vars

\* one StorageManager whose collection receives page versions and is asked
\* whether pages changed
ChangeNext == StorePage \/ CheckContentChange

ChangeSpec == StoreInit /\ [][ChangeNext]_vars

-----------------------------------------------------------------------------
(* Properties of Chunker.chunk_content.                                    *)

IsSubChunk(c) == "is_sub_chunk" \in DOMAIN c.metadata

IsBlank(s) == \A i \in 1..Len(s) : IsSpace(SubSeq(s, i, i))

\* the text chunk_content segments: the document text up to the ceiling
DocLength == Min2(Len(content_data.content), max_content_size)

Called == pc \in {"loop", "done"} /\ content_data.content # ""

\* C2: chunk_content terminates for every non-empty text, chunk_size > 0 and
\* overlap_size >= 0.  The cursor after a window is a function of the cursor
\* before it, so a terminating call visits every cursor value in
\* 0..len-1 at most once and makes at most len iterations: the loop
\* terminates if and only if it never makes more iterations than the
\* (truncated) text has characters.
C2_Terminates == Called => Len(windows) <= Len(content)

\* the k-th window (k = 0, 1, ...) of the full-width sliding scheme
FullWidthWindow(k) ==
    LET from == k * (chunk_size - overlap_size)
    IN  <<from, Min2(from + chunk_size, Len(content))>>

\* the index of the first full-width window whose end is the text end
LastFullWidthWindow ==
    CHOOSE k \in 0..Len(content) :
        /\ FullWidthWindow(k)[2] = Len(content)
        /\ \A j \in 0..(k - 1) : FullWidthWindow(j)[2] # Len(content)

NoMarkerNoSpace(s) ==
    \A i \in 1..Len(s) : SubSeq(s, i, i) \notin {".", "!", "?", " ", "\n"}

\* C3: for a text without sentence-terminal marker and without whitespace,
\* and overlap_size < chunk_size (chunk_size within the per-chunk maximum),
\* the chunks emitted are exactly the full-width windows number 0, 1, ... up
\* to the first whose end is the text end, and no chunk follows it; on
\* return that last window has been emitted.
C3_FullWidthWindows ==
    (/\ Called
     /\ NoMarkerNoSpace(content)
     /\ overlap_size < chunk_size
     /\ chunk_size <= max_chunk_size)
    => /\ Len(chunks) <= LastFullWidthWindow + 1
       /\ \A i \in 1..Len(chunks) :
             <<chunks[i].metadata.start_idx, chunks[i].metadata.end_idx>>
                = FullWidthWindow(i - 1)
       /\ pc = "done" => Len(chunks) = LastFullWidthWindow + 1

\* C4: no two consecutive chunks have the same start_idx (sub-chunks of one
\* oversized window, which share their window, set aside).
C4_StartsDiffer ==
    \A i \in 1..(Len(chunks) - 1) :
        chunks[i].metadata.start_idx = chunks[i + 1].metadata.start_idx
        => IsSubChunk(chunks[i]) /\ IsSubChunk(chunks[i + 1])

Span(c) == <<c.metadata.start_idx, c.metadata.end_idx>>

\* some emitted chunk's span [start_idx, end_idx) holds the index i
Covered(i) ==
    \E n \in 1..Len(chunks) : Span(chunks[n])[1] <= i /\ i < Span(chunks[n])[2]

\* C5 as claimed: the spans of the returned chunks start at 0, each next
\* span starts at or before the previous span's end, the last span ends at
\* min(len(text), 30000) and no span extends past that ceiling.
C5_SpansCoverText ==
    (pc = "done" /\ content_data.content # "")
    => /\ chunks # <<>>
       /\ Span(chunks[1])[1] = 0
       /\ \A n \in 1..(Len(chunks) - 1) :
             Span(chunks[n + 1])[1] <= Span(chunks[n])[2]
       /\ Span(chunks[Len(chunks)])[2] = DocLength
       /\ \A n \in 1..Len(chunks) : Span(chunks[n])[2] <= max_content_size

\* C5 as amended: every non-whitespace character of the text before the end
\* of the last processed window lies in the span of an emitted chunk (only
\* whitespace is left uncovered, a whitespace-only window emitting no
\* chunk), no span extends past min(len(text), 30000), and on return the
\* last processed window ends at min(len(text), 30000).
C5_SpansCoverNonSpace ==
    Called
    => /\ \A i \in 0..(end_idx - 1) :
             IsSpace(CharAt(content_data.content, i)) \/ Covered(i)
       /\ \A n \in 1..Len(chunks) :
             /\ 0 <= Span(chunks[n])[1]
             /\ Span(chunks[n])[1] < Span(chunks[n])[2]
             /\ Span(chunks[n])[2] <= DocLength
       /\ pc = "done" => end_idx = DocLength

\* C5 witness: a call has returned chunks, one of its windows was
\* whitespace-only and emitted nothing, and the text was truncated.
C5_Witness ==
    /\ pc = "done"
    /\ chunks # <<>>
    /\ Len(content_data.content) > max_content_size
    /\ \E k \in 1..Len(windows) : windows[k].emitted = 0

\* C6: every chunk, ordinary or sub-chunk, has content of at most
\* max_chunk_size (20000) characters, for every chunk_size > 0.
C6_ChunkLengthBounded ==
    \A n \in 1..Len(chunks) : Len(chunks[n].content) <= max_chunk_size

\* C6 witness: a call with chunk_size above the maximum has returned, and
\* one of its chunks is a sub-chunk of exactly the maximum length.
C6_Witness ==
    /\ pc = "done"
    /\ chunk_size > max_chunk_size
    /\ \E n \in 1..Len(chunks) :
          IsSubChunk(chunks[n]) /\ Len(chunks[n].content) = max_chunk_size

\* windows k and k + 1 both emitted a chunk
BothEmitted(k) == windows[k].emitted > 0 /\ windows[k + 1].emitted > 0

\* C7 as claimed: of two chunks from successive windows the second starts
\* overlap_size before the end of the first, unless the first ends at the
\* end of the document.
C7_ExactOverlap ==
    \A k \in 1..(Len(windows) - 1) :
        BothEmitted(k)
        => \/ windows[k].end = Len(content)
           \/ windows[k + 1].start = windows[k].end - overlap_size

\* C7 as amended: ... unless the first ends at the end of the document, or
\* its end_idx - overlap_size is not positive, in which case the second
\* starts at the end of the first.
C7_OverlapOrGuard ==
    \A k \in 1..(Len(windows) - 1) :
        BothEmitted(k)
        => \/ windows[k].end = Len(content)
           \/ /\ windows[k].end - overlap_size > 0
              /\ windows[k + 1].start = windows[k].end - overlap_size
           \/ /\ windows[k].end - overlap_size <= 0
              /\ windows[k + 1].start = windows[k].end

\* C7 witness: two successive windows emitted chunks, the first not ending
\* at the document end: once with a positive overlap start, once guarded.
C7_Witness ==
    /\ Len(windows) >= 3
    /\ BothEmitted(1) /\ BothEmitted(2)
    /\ windows[2].end # Len(content)
    /\ windows[1].end - overlap_size <= 0
    /\ windows[2].start = windows[1].end
    /\ windows[2].end - overlap_size > 0
    /\ windows[3].start = windows[2].end - overlap_size

\* a sentence-terminal marker begins at index i of the text
MarkerBeginsAt(text, i) == \E m \in Markers : OccursAt(text, m, i)

\* the largest p in 0..size-1 such that a marker begins at start + p, or -1
LastMarker(text, start, size) ==
    LET P == {p \in 0..(size - 1) : MarkerBeginsAt(text, start + p)}
    IN  IF P = {} THEN -1 ELSE CHOOSE p \in P : \A q \in P : q <= p

C9_NoBlankChunk ==
    /\ \A n \in 1..Len(chunks) : ~IsBlank(chunks[n].content)
    /\ \A k \in 1..Len(windows) :
          IsBlank(Slice(content, windows[k].start, windows[k].end))
          => windows[k].emitted = 0

\* C9 witness: a whitespace-only window was passed over, and an oversized
\* window holding a long run of whitespace was split into sub-chunks.
C9_Witness ==
    /\ \E k \in 1..Len(windows) : windows[k].emitted = 0
    /\ \E n \in 1..Len(chunks) :
          /\ IsSubChunk(chunks[n])
          /\ IsSpace(SubSeq(chunks[n].content, 1, 1))

-----------------------------------------------------------------------------
(* Properties of StorageManager.idempotent_store_embeddings.               *)

\* C1: running idempotent_store_embeddings again on the batch it has just
\* stored, whether the duplicate lookups succeed or fail, leaves the
\* collection with the point ids it had after the first run: re-ingestion
\* adds no point.
C1_RerunAddsNoPoint ==
    (runs = 2 /\ ~raised) => DOMAIN store = DOMAIN store_after_first

AllLookupsOk == \A i \in DOMAIN lookup_ok : lookup_ok[i]

\* no point stored when the latest call began carries the candidate's hash
MatchedNoPoint(c) ==
    \A id \in DOMAIN store_before :
        store_before[id].payload.metadata.content_hash
           # c.metadata.content_hash

\* the candidates of the latest batch that matched no stored point, in order
NewCandidates == SelectSeq(chunk_embeddings, MatchedNoPoint)

\* C10: when every duplicate lookup succeeds, the call upserts exactly the
\* candidates whose content_hash matched no point stored when it began, in
\* their order in the batch, and calls upsert not at all when there is none.
C10_UpsertsExactlyNew ==
    AllLookupsOk
    => IF NewCandidates = <<>>
       THEN upsert_calls = <<>>
       ELSE /\ Len(upsert_calls) = 1
            /\ Len(upsert_calls[1]) = Len(NewCandidates)
            /\ \A i \in 1..Len(NewCandidates) :
                  /\ upsert_calls[1][i].payload.content
                        = NewCandidates[i].content
                  /\ upsert_calls[1][i].payload.metadata
                        = NewCandidates[i].metadata
                  /\ upsert_calls[1][i].vector = NewCandidates[i].embedding

\* C10 witness: every lookup of a two-candidate batch succeeded, the first
\* candidate was a duplicate, the second was not and alone was upserted.
C10_Witness ==
    /\ AllLookupsOk
    /\ ~raised
    /\ Len(chunk_embeddings) = 2
    /\ ~MatchedNoPoint(chunk_embeddings[1])
    /\ MatchedNoPoint(chunk_embeddings[2])
    /\ Len(upsert_calls) = 1
    /\ Len(upsert_calls[1]) = 1
    /\ upsert_calls[1][1].payload.content = chunk_embeddings[2].content

\* the positions of the latest batch whose candidate must be stored: its
\* duplicate lookup failed, or it matched no point stored when the call began
MustStore ==
    {i \in DOMAIN chunk_embeddings :
        ~lookup_ok[i] \/ MatchedNoPoint(chunk_embeddings[i])}

\* the upsert call of the latest run holds the point of candidate i
InUpsert(i) ==
    /\ Len(upsert_calls) = 1
    /\ \E j \in DOMAIN upsert_calls[1] :
          /\ upsert_calls[1][j].id = PointId(chunk_embeddings[i])
          /\ upsert_calls[1][j].payload.content = chunk_embeddings[i].content

\* C11: a candidate whose duplicate lookup failed is reported 'not a
\* duplicate' and is part of the upsert; the failure drops no candidate and
\* does not end the processing of the others: the upsert holds exactly the
\* candidates whose lookup failed or matched nothing, and when it succeeds
\* each of them has its point in the collection.
C11_FailedLookupUpserts ==
    /\ \A i \in DOMAIN lookup_ok :
          ~lookup_ok[i] => ~check_duplicate(store_before,
                                            ContentHashOf(chunk_embeddings[i]),
                                            lookup_ok[i])
    /\ \A i \in MustStore : InUpsert(i)
    /\ MustStore # {} => Len(upsert_calls[1]) = Cardinality(MustStore)
    /\ MustStore = {} => upsert_calls = <<>>
    /\ ~raised => \A i \in MustStore :
                     PointId(chunk_embeddings[i]) \in DOMAIN store

\* C11 witness: the lookup of the first candidate failed although its hash
\* is stored, the second candidate's lookup succeeded and found it new, and
\* both were upserted.
C11_Witness ==
    /\ Len(chunk_embeddings) = 2
    /\ ~lookup_ok[1] /\ lookup_ok[2]
    /\ ~MatchedNoPoint(chunk_embeddings[1])
    /\ MatchedNoPoint(chunk_embeddings[2])
    /\ ~raised
    /\ Len(upsert_calls) = 1
    /\ Len(upsert_calls[1]) = 2
    /\ InUpsert(1) /\ InUpsert(2)

-----------------------------------------------------------------------------
(* Properties of StorageManager.check_content_change.                      *)

\* the content hashes stored for the URL of the latest check when it ran
HashesOfUrl ==
    {store_checked[id].payload.metadata.content_hash :
        id \in PointsOfUrl(store_checked, url)}

\* C12: before any point is stored for a URL, check_content_change returns
\* changed with no existing hash; once content with hash h1 (and no other)
\* is stored for it, a check with another hash returns changed, and a check
\* with h1 returns unchanged, with h1 as the existing hash.
C12_ChangeSequence ==
    (checked /\ scroll_ok)
    => /\ HashesOfUrl = {} => has_changed /\ existing_hash = None
       /\ \A h1 \in HashesOfUrl :
             HashesOfUrl = {h1}
             => /\ new_content_hash # h1 => has_changed
                /\ new_content_hash = h1 => ~has_changed
                /\ existing_hash = h1

\* C12 witness: the URL holds one version, stored while the other URL was
\* still empty, and the check with that version's hash reported unchanged.
C12_Witness ==
    /\ checked /\ scroll_ok
    /\ HashesOfUrl = {new_content_hash}
    /\ ~has_changed
    /\ \E u \in Urls : u # url /\ PointsOfUrl(store_checked, u) # {}

\* C13: when points exist for the URL, the check reports changed whenever
\* any of them carries a content hash different from the candidate's.
C13_AnyMismatchIsChanged ==
    (checked /\ scroll_ok)
    => ((\E h \in HashesOfUrl : h # new_content_hash) => has_changed)

\* C14: when the scroll fails, the call returns changed with no existing
\* hash, whatever the URL, the candidate hash and the collection.
C14_FailedLookupIsChanged ==
    (checked /\ ~scroll_ok) => (has_changed /\ existing_hash = None)

\* C14 witness: the scroll failed for a URL whose only stored version has
\* the candidate's hash, and the call reported changed.
C14_Witness ==
    /\ checked /\ ~scroll_ok
    /\ HashesOfUrl = {new_content_hash}
    /\ has_changed
    /\ existing_hash = None

-----------------------------------------------------------------------------
(* Properties of the chunk identifiers and of the chunk order.             *)

\* the number of chunks the windows before window k emitted
RECURSIVE EmittedBefore(_)
EmittedBefore(k) ==
    IF k <= 1 THEN 0 ELSE EmittedBefore(k - 1) + windows[k - 1].emitted

\* the window that emitted chunk n
WindowOf(n) ==
    CHOOSE k \in 1..Len(windows) :
        EmittedBefore(k) < n /\ n <= EmittedBefore(k) + windows[k].emitted

\* the identifier the claim gives chunk n: the first 16 characters of the
\* content hash, the window offsets and, for a sub-chunk, its number
ClaimedId(n) ==
    LET k == WindowOf(n)
        base == SubSeq(content_data.metadata.content_hash, 1, 16)
                   \o "_" \o ToString(windows[k].start)
                   \o "_" \o ToString(windows[k].end)
    IN  IF IsSubChunk(chunks[n])
        THEN base \o "_" \o ToString(n - EmittedBefore(k) - 1)
        ELSE base

\* C15: every chunk identifier is <first 16 characters of the content
\* hash>_<start_idx>_<end_idx>, with _<subindex> for a sub-chunk, and a
\* second call on the same text and content hash with the same chunk_size
\* and overlap_size, the url, title and headings being different, makes the
\* same identifiers in the same order.
C15_IdsReproducible ==
    /\ \A n \in 1..Len(chunks) : chunks[n].id = ClaimedId(n)
    /\ calls = 2
       => /\ \A n \in 1..Min2(Len(chunks), Len(previous_ids)) :
                chunks[n].id = previous_ids[n]
          /\ Len(chunks) <= Len(previous_ids)
          /\ pc = "done" => Len(chunks) = Len(previous_ids)

\* C15 witness: the second call has returned as many chunks as the first,
\* sub-chunks among them, for a page with another url and title.
C15_Witness ==
    /\ calls = 2
    /\ pc = "done"
    /\ content_data.url = "https://mirror/p1"
    /\ Len(chunks) >= 3
    /\ Len(previous_ids) = Len(chunks)
    /\ \E n \in 1..Len(chunks) : IsSubChunk(chunks[n])
    /\ \E n \in 1..Len(chunks) : ~IsSubChunk(chunks[n])

\* the position in 'chunks' of the chunk a point was made from
ChunkIndexOf(point) ==
    CHOOSE n \in 1..Len(chunks) : PointId(chunks[n]) = point.id

\* C16: along the chunks of one document start_idx never decreases, for
\* every chunk_size > 0 and overlap_size >= 0, and the chunks that survive
\* the duplicate filter reach the upsert in that same relative order.
C16_LeftToRight ==
    /\ \A n \in 1..(Len(chunks) - 1) :
          chunks[n].metadata.start_idx <= chunks[n + 1].metadata.start_idx
    /\ (pc = "stored" /\ upsert_calls # <<>>)
       => /\ \A j \in DOMAIN upsert_calls[1] :
                \E n \in 1..Len(chunks) :
                    PointId(chunks[n]) = upsert_calls[1][j].id
          /\ \A i, j \in DOMAIN upsert_calls[1] :
                i < j => ChunkIndexOf(upsert_calls[1][i])
                            < ChunkIndexOf(upsert_calls[1][j])

-----------------------------------------------------------------------------
(* Properties of the retrieval harness.                                    *)

\* the id of the top-ranked result of a retrieve_func call, if it has one
TopId(outcome) ==
    IF /\ outcome.kind = "return"
       /\ outcome.value.type = "list"
       /\ outcome.value.items # <<>>
       /\ "id" \in DOMAIN outcome.value.items[1]
    THEN outcome.value.items[1].id
    ELSE None

TopIds == [k \in DOMAIN outcomes |-> TopId(outcomes[k])]

\* the number of runs whose top-ranked id is the most frequent one
ModeCount ==
    LET ids == {TopIds[k] : k \in DOMAIN TopIds} \ {None}
    IN  IF ids = {} THEN 0
        ELSE LET mode == CHOOSE x \in ids :
                             \A y \in ids : Count(TopIds, x) >= Count(TopIds, y)
             IN  Count(TopIds, mode)

ConsistencyReturned == harness = "consistency" /\ harness_pc = "returned"

PerformanceReturned == harness = "performance" /\ harness_pc = "returned"

\* C17: with num_runs = N >= 1, the reported consistency_score is (number
\* of runs whose top-ranked id is the most frequent top-ranked id) / N, for
\* every pattern of outcomes of the N runs.
C17_ScoreOverAllRuns ==
    (ConsistencyReturned /\ num_runs >= 1)
    => results_dict.consistency_score[1] * num_runs
          = ModeCount * results_dict.consistency_score[2]

\* every retrieve_func call so far raised or returned a list of results
\* that all have an id
OnlyRetrievalFailures ==
    \A k \in DOMAIN outcomes :
        outcomes[k].kind = "return"
        => /\ outcomes[k].value.type = "list"
           /\ \A n \in DOMAIN outcomes[k].value.items :
                 "id" \in DOMAIN outcomes[k].value.items[n]

\* C18: whatever calls of the retrieval function fail, both harness
\* functions attempt every query or run, let no exception out, and return
\* counts with successful + failed = the number requested.
C18_BatchCompletes ==
    /\ harness = "performance"
       => /\ harness_pc # "raised"
          /\ harness_pc = "returned"
             => /\ Len(outcomes) = Len(test_queries)
                /\ results_dict.total_queries = Len(test_queries)
                /\ results_dict.successful_queries
                      + results_dict.failed_queries = results_dict.total_queries
    /\ harness = "consistency"
       => /\ (harness_pc = "raised" => ~OnlyRetrievalFailures)
          /\ harness_pc = "returned"
             => /\ Len(outcomes) = num_runs
                /\ results_dict.successful_runs + results_dict.failed_runs
                      = num_runs

\* C18 witness: a consistency check of three runs returned after its first
\* and its last run raised, with one successful and two failed runs.
C18_Witness ==
    /\ ConsistencyReturned
    /\ num_runs = 3
    /\ OnlyRetrievalFailures
    /\ outcomes[1].kind = "raise"
    /\ outcomes[2].kind = "return"
    /\ outcomes[3].kind = "raise"
    /\ results_dict.successful_runs = 1
    /\ results_dict.failed_runs = 2

\* C19: the latency samples are those of the successful queries or runs:
\* a query or run counted as failed leaves no sample, however its step
\* raised.
C19_SamplesAreSuccesses ==
    /\ harness = "performance"
       => Len(successful_times) = results_dict.successful_queries
    /\ harness = "consistency"
       => Len(response_times) = results_dict.successful_runs

\* the queries of the performance test that completed in under one second
UnderOneSecond ==
    Cardinality({k \in DOMAIN outcomes :
                    /\ outcomes[k].kind = "return"
                    /\ outcomes[k].time < threshold_ms})

TestReturned == harness = "performance_test" /\ harness_pc = "returned"

-----------------------------------------------------------------------------
(* Properties of the validation functions.                                 *)

ValidationTested == validation_pc = "tested"

\* C21: run_validation_test reports passed exactly when the accuracy score
\* it reports is at least 0.85; without results the score is 0 and the test
\* does not pass; when retrieve_func raises the function still returns, with
\* an error, the score 0 and passed = false.
C21_PassedFromThreshold ==
    ValidationTested
    => /\ validation.passed
          <=> validation.accuracy_score[1] * 100
                 >= 85 * validation.accuracy_score[2]
       /\ (retrieved.kind = "return" /\ ~Truthy(retrieved.value))
          => /\ validation.accuracy_score = <<0, 1>>
             /\ ~validation.passed
             /\ validation.retrieved_count = 0
       /\ retrieved.kind = "raise"
          => /\ "error" \in DOMAIN validation
             /\ validation.accuracy_score = <<0, 1>>
             /\ ~validation.passed

\* C21 witness: a test whose single result scores exactly 0.85 has passed.
C21_Witness ==
    /\ ValidationTested
    /\ retrieved = Returns(ListOf(<<Chunk("robots", 85)>>), 200)
    /\ expected = "Robots"
    /\ validation.accuracy_score = <<85, 100>>
    /\ validation.passed

\* C22: calculate_accuracy_score returns a value between 0 and 1 for every
\* list of chunks and every expected text, and never divides by zero.
C22_ScoreInUnitInterval ==
    validation_pc = "scored"
    => /\ accuracy # ZeroDivisionError
       /\ accuracy[2] > 0
       /\ accuracy[1] >= 0
       /\ accuracy[1] <= accuracy[2]

-----------------------------------------------------------------------------
(* Properties of retrieve_content and of retrieve.main.                    *)

RetrieveDone == retrieve_pc \in {"returned", "raised"}

\* the query is empty, whitespace-only, shorter than 3 characters after
\* trimming, or longer than 10000 characters
InvalidQuery(query_text) ==
    \/ \A i \in 0..(Len(query_text) - 1) : IsSpace(CharAt(query_text, i))
    \/ Len(Strip(query_text)) < 3
    \/ Len(query_text) > 10000

InvalidTopK(k) == k < 1 \/ k > 100

ValidArguments == ~InvalidQuery(args_query) /\ ~InvalidTopK(args_top_k)

\* the embedding service failed: it was called and no search followed
EmbeddingFailed ==
    retrieve_pc = "raised" /\ embed_calls # <<>> /\ search_calls = <<>>

NoResults == retrieve_result = Returns(ListOf(<<>>), 200)

\* C23: the outcome of retrieve_content tells a collaborator failure, an
\* invalid input and a search without results apart: a failure of the
\* embedding service or of the vector store raises an error that is no
\* ValueError, an invalid input raises ValueError, and only a search that
\* succeeded without hits returns the empty list.
C23_OutcomesToldApart ==
    RetrieveDone
    => /\ ~ValidArguments
          => /\ retrieve_result.kind = "raise"
             /\ retrieve_result.error = "ValueError"
       /\ (EmbeddingFailed \/ search_failed)
          => /\ retrieve_result.kind = "raise"
             /\ retrieve_result.error # "ValueError"
       /\ NoResults => ~search_failed

\* C24: for an invalid query or an invalid top_k retrieve_content raises
\* ValueError ('Query validation failed' for the query, else 'top_k
\* validation failed') and calls neither the embeddings generator nor the
\* storage manager.
C24_InvalidInputRaises ==
    (retrieve_pc # "idle" /\ ~ValidArguments)
    => /\ retrieve_pc = "raised"
       /\ retrieve_result.kind = "raise"
       /\ retrieve_result.error = "ValueError"
       /\ Slice(retrieve_result.message, 0, 23) =
             (IF InvalidQuery(args_query) THEN "Query validation failed"
              ELSE "top_k validation failed")
       /\ embed_calls = <<>>
       /\ search_calls = <<>>

\* C24 witness: a query of two characters between whitespace was refused.
C24_Witness ==
    /\ retrieve_pc = "raised"
    /\ args_query = " ab\n"
    /\ args_top_k = 5
    /\ retrieve_result.error = "ValueError"
    /\ embed_calls = <<>>

\* one call of the embeddings generator with the query text, then one call
\* of search_similar with that embedding and limit = top_k
OneEmbeddingOneSearch ==
    /\ embed_calls = <<[content |-> args_query]>>
    /\ search_calls = <<[query_embedding |-> EmbeddingOf(args_query),
                         limit |-> args_top_k]>>

\* one RetrievedChunk per search hit, in rank order, with the hit's fields
OneChunkPerHit ==
    /\ retrieve_result.kind = "return"
    /\ retrieve_result.value.type = "list"
    /\ Len(retrieve_result.value.items) = Len(search_hits)
    /\ \A i \in DOMAIN search_hits :
          LET chunk == retrieve_result.value.items[i]
              hit == search_hits[i]
          IN  /\ chunk.id = hit.id
              /\ chunk.score = hit.score
              /\ \A key \in DOMAIN hit.payload : chunk[key] = hit.payload[key]

\* C25 as stated: for every valid query and top_k, retrieve_content calls
\* the embeddings generator once with the query text, then search_similar
\* once with that embedding and limit = top_k, and returns one
\* RetrievedChunk per search hit in rank order with the hit's fields.
C25_EmbedSearchFormat ==
    (RetrieveDone /\ ValidArguments)
    => OneEmbeddingOneSearch /\ OneChunkPerHit

\* C25 amended: the same, when the embeddings generator returns a vector;
\* when it raises, it was called once with the query text, search_similar
\* is not called and the error leaves retrieve_content.
C25_EmbedSearchFormatWhenEmbedded ==
    (RetrieveDone /\ ValidArguments)
    => /\ embed_calls = <<[content |-> args_query]>>
       /\ retrieve_pc = "returned"
          => OneEmbeddingOneSearch /\ OneChunkPerHit
       /\ retrieve_pc = "raised"
          => search_calls = <<>> /\ retrieve_result.kind = "raise"

\* C25 witness: a search with two hits returned their two chunks in order.
C25_Witness ==
    /\ retrieve_pc = "returned"
    /\ args_query = "What is physical AI?"
    /\ args_top_k = 5
    /\ Len(search_hits) = 2
    /\ search_hits[1].id = "id2"
    /\ search_hits[2].id = "id3"
    /\ retrieve_result.value.items[1].url = "https://book/p2"
    /\ retrieve_result.value.items[2].url = ""

\* C26: when the configuration is valid, the components initialise and the
\* standard retrieval succeeds, main calls sys.exit exactly once, with
\* status 0.
C26_ExitsOnceWithZero ==
    (main_pc \in {"returned", "exited"} /\ retrieve_pc = "returned")
    => exit_calls = <<0>>

-----------------------------------------------------------------------------
(* Properties of Chunker._split_large_chunk.                               *)

\* the strings of a list, one after the other
RECURSIVE Joined(_)
Joined(pieces) ==
    IF pieces = <<>> THEN "" ELSE Head(pieces) \o Joined(Tail(pieces))

\* the trimmed text of window k
WindowText(k) == Strip(Slice(content, windows[k].start, windows[k].end))

\* C27: for a chunk text longer than max_size, _split_large_chunk returns at
\* least two non-empty pieces whose concatenation in order is the text; the
\* pieces of an oversized window are emitted as sub-chunks, each tagged
\* is_sub_chunk and named <hash>_<start>_<end>_<subindex> with subindex 0,
\* 1, 2, ... in order, so the sub-chunks of one window have distinct ids.
C27_SplitPartitionsText ==
    /\ split_pc = "returned"
       => /\ Len(split_result) >= 2
          /\ \A i \in DOMAIN split_result : split_result[i] # ""
          /\ Joined(split_result) = split_text
    /\ \A k \in 1..Len(windows) :
          Len(WindowText(k)) > 20000
          => LET first == EmittedBefore(k)
                 count == windows[k].emitted
                 subs == [j \in 1..count |-> chunks[first + j]]
             IN  /\ count >= 2
                 /\ Joined([j \in 1..count |-> subs[j].content])
                       = WindowText(k)
                 /\ \A j \in 1..count :
                       /\ IsSubChunk(subs[j])
                       /\ subs[j].metadata.is_sub_chunk
                       /\ subs[j].id =
                             SubSeq(content_data.metadata.content_hash, 1, 16)
                                \o "_" \o ToString(windows[k].start)
                                \o "_" \o ToString(windows[k].end)
                                \o "_" \o ToString(j - 1)
                 /\ \A i, j \in 1..count : i # j => subs[i].id # subs[j].id

\* C27 witness: chunk_content has returned the two sub-chunks of an
\* oversized window that was cut after its sentence boundary, numbered 0
\* and 1.
C27_Witness ==
    /\ pc = "done"
    /\ Len(chunks) = 2
    /\ IsSubChunk(chunks[1])
    /\ IsSubChunk(chunks[2])
    /\ Len(chunks[1].content) = 15001
    /\ chunks[1].id = "9f86d081884c7d65_0_30000_0"
    /\ chunks[2].id = "9f86d081884c7d65_0_30000_1"

-----------------------------------------------------------------------------
(* Properties of the stored points.                                        *)

\* C28: after a run of idempotent_store_embeddings that did not raise,
\* every candidate of its batch has a point in the collection under its own
\* point id; the collection never loses a point, so this is the same as:
\* every candidate ever submitted in a successful run has its point.
C28_EveryCandidateHasItsPoint ==
    (runs > 0 /\ ~raised)
    => \A i \in DOMAIN chunk_embeddings :
          PointId(chunk_embeddings[i]) \in DOMAIN store

-----------------------------------------------------------------------------
(* Properties of retry_with_backoff.                                       *)

RetryDone == retry_pc \in {"returned", "raised"}

AllListed ==
    \A k \in DOMAIN func_outcomes :
        func_outcomes[k].kind = "raise" /\ func_outcomes[k].listed

\* C29: func is called at most max_retries + 1 times; the result of the
\* first call that returns is returned and func is called no further; when
\* every call raises a listed exception the last one is re-raised after
\* exactly max_retries + 1 calls, with a sleep between two attempts and none
\* after the last; the 'Retry logic error' of the last line is never
\* raised, whatever max_retries is.
C29_RetryBounded ==
    /\ Len(func_outcomes) <= Max2(max_retries + 1, 0)
    /\ \A k \in 1..(Len(func_outcomes) - 1) :
          func_outcomes[k].kind = "raise" /\ func_outcomes[k].listed
    /\ retry_pc = "returned"
       => /\ func_outcomes # <<>>
          /\ retry_result = func_outcomes[Len(func_outcomes)]
          /\ retry_result.kind = "return"
    /\ (retry_pc = "raised" /\ AllListed)
       => /\ Len(func_outcomes) = max_retries + 1
          /\ Len(delays) = max_retries
          /\ func_outcomes # <<>>
          /\ retry_result = func_outcomes[Len(func_outcomes)]
    /\ RetryDone => retry_result # RetryLogicError

-----------------------------------------------------------------------------
(* Properties of Crawler.crawl_website.                                    *)

\* the number of positions of a list that hold x
Occurrences(list, x) == Cardinality({k \in DOMAIN list : list[k] = x})

\* C30: crawl_website makes at most max_pages loop iterations and so
\* terminates, requests each url at most once, visits at most max_pages
\* urls, never holds a url twice in to_visit, returns at most one result
\* per visited url in the order of the visits, and queues the links of a
\* page also when its content extraction failed.
C30_CrawlOncePerUrl ==
    /\ iterations <= max_pages
    /\ iterations = Len(visits)
    /\ \A page \in SitePages : Occurrences(http_gets, page) <= 1
    /\ Cardinality(visited_urls) <= max_pages
    /\ visited_urls = {visits[k].url : k \in DOMAIN visits}
    /\ \A i, j \in DOMAIN visits : i # j => visits[i].url # visits[j].url
    /\ \A i, j \in DOMAIN to_visit : i # j => to_visit[i] # to_visit[j]
    /\ \A i \in DOMAIN to_visit : to_visit[i] \notin visited_urls
    /\ crawl_results =
          SelectSeq([k \in DOMAIN visits |-> [url |-> visits[k].url]],
                    LAMBDA r : \E k \in DOMAIN visits :
                                  visits[k].url = r.url /\ visits[k].extracted)
    /\ \A k \in DOMAIN visits :
          \A n \in DOMAIN visits[k].new_links :
              LET link == visits[k].new_links[n]
              IN  \/ link \in visited_urls
                  \/ \E j \in DOMAIN to_visit : to_visit[j] = link

====
